---- MODULE Spec2Model ----
(***************************************************************************)
(* Client-side chat session of gemini_integration.                         *)
(*                                                                         *)
(* Spec      : the streaming widget createGeminiChatUI                     *)
(*             (gemini_integration/public/js/gemini_chat_ui.js)            *)
(* SpecPage  : the unary chat page (unnamed/part_003)                      *)
(*                                                                         *)
(* Both variants keep the same closure variables (currentConversation,     *)
(* conversation, chat_history, ...), so they share the variables below.    *)
(* Text is a sequence of strings (characters, or the fixed fragments the   *)
(* code writes); html is a sequence of tokens (tags and text).  A DOM node *)
(* of the transcript is a record [cls, id, html]: cls is the css class of  *)
(* the element (the role, or "greeting-card"), id is the identity of the   *)
(* bubble element.  A bubble that chat_history.empty() has detached is no  *)
(* longer observable, so only its identity is kept (in streaming_bubble).  *)
(***************************************************************************)
EXTENDS Integers, Sequences, FiniteSets, TLC

VARIABLES
    currentConversation,  \* active conversation id, NoConv when null
    conversation,         \* the in-memory message log
    chat_history,         \* the transcript: sequence of DOM nodes
    chat_input_val,       \* text the program wrote last into the textarea
    chat_input_disabled,  \* chat_input.prop("disabled")
    send_btn_visible,     \* send_btn.show() / hide()
    spinner_visible,      \* spinner_container.show() / hide()
    streaming_bubble,     \* id of the bubble that receives chunks, NoBubble when null
    full_response,        \* text accumulated for the stream
    conversations_list,   \* the sidebar: sequence of [name, active]
    turns,                \* the chat / stream_chat calls issued so far
    pending_lists,        \* get_conversations calls without a response yet
    pending_loads,        \* get_conversation calls without a response yet
    showdown_loaded,      \* window.showdown (unary page: the script loads later)
    path,                 \* window.location.pathname (unary page)
    saved,                \* the conversations save_conversation has stored
    uploaded_file_uri,    \* uri of the last upload answered, NoFile when null
    uploads,              \* the upload_file calls issued so far
    superseded,           \* how many of pending_loads were requested before the
                          \* user's latest choice of conversation (read by the
                          \* properties only)
    conversation_history, \* attachment page: the turns sent to the backend
    attached_file_url,    \* attachment page: url of the uploaded file, NoFile when null
    search_input_val,     \* search panel: search_input.val()
    search_results,       \* search panel: [html, visible] of the results list, and
                          \* the query it answers (read by the properties only)
    searches,             \* search panel: search calls without a response yet
    realtime_handlers,    \* settings form: handlers registered per event
    alerts,               \* settings form: the alerts shown so far
    backfill_calls        \* settings form: enqueue calls without a response yet

\* the state of the file uploads (unnamed/part_000), and which of the
\* widget's get_conversation calls the user has since overridden
upload_vars == <<uploaded_file_uri, uploads>>
\* the state of the attachment page (unnamed/part_005), of the search panel
\* (page/gemini_chat/gemini_chat.js) and of the Gemini Settings form
attach_vars == <<conversation_history, attached_file_url>>
search_vars == <<search_input_val, search_results, searches>>
settings_vars == <<realtime_handlers, alerts, backfill_calls>>
page_vars == <<attach_vars, search_vars, settings_vars>>
more_vars == <<upload_vars, superseded, page_vars>>

vars == <<currentConversation, conversation, chat_history, chat_input_val,
          chat_input_disabled, send_btn_visible, spinner_visible,
          streaming_bubble, full_response, conversations_list, turns,
          pending_lists, pending_loads, showdown_loaded, path, saved, more_vars>>

----------------------------------------------------------------------------
(* Bounds *)

MaxTurns == 2          \* sends per run
MaxChunks == 2         \* message chunks per streamed turn
NumStored == 1         \* conversations the backend holds at start
MaxPendingLists == 1   \* get_conversations calls in flight
MaxPendingLoads == 1   \* get_conversation calls in flight

NoConv == 0
NoBubble == 0

\* Conversation ids: the stored ones, then one the backend assigns per turn.
ConvIds == 1..(NumStored + MaxTurns)
AssignedId(t) == NumStored + t

Undefined == [def |-> FALSE, s |-> <<>>]
Str(s) == [def |-> TRUE, s |-> s]

InputTexts == {<<>>, <<" ">>, <<" ", "h">>}
PromptArgs == {Undefined, Str(<<>>), Str(<<" ">>), Str(<<"h">>)}
Contexts == {"doc"}
Reasons == {<<"T", "<">>}

\* An entry of the message log, { role: role, text: text }.  turn is not a
\* field of the program's object: it records which send's handlers pushed the
\* entry (0: none, the entry was fetched).
Entry(role, text, turn) == [role |-> role, text |-> text, turn |-> turn]
Msg(role, text) == Entry(role, text, 0)
\* the program's view of the log
Messages(log) == [i \in DOMAIN log |-> Msg(log[i].role, log[i].text)]

----------------------------------------------------------------------------
(* Pure helpers *)

RECURSIVE TrimLeft(_)
TrimLeft(s) ==
    IF s # <<>> /\ Head(s) = " " THEN TrimLeft(Tail(s)) ELSE s

RECURSIVE TrimRight(_)
TrimRight(s) ==
    IF s # <<>> /\ s[Len(s)] = " " THEN TrimRight(SubSeq(s, 1, Len(s) - 1)) ELSE s

\* String.prototype.trim
trim(s) == TrimRight(TrimLeft(s))

\* !prompt : undefined and "" are falsy
Falsy(p) == ~p.def \/ p.s = <<>>

\* showdown.Converter().makeHtml(text): a paragraph around non-empty text
makeHtml(text) ==
    IF text = <<>> THEN <<>> ELSE <<"<p>">> \o text \o <<"</p>">>

\* DOMPurify.sanitize(html): drops script elements
sanitize(html) ==
    SelectSeq(html, LAMBDA tok : tok # "<script>")

\* chat_history.find(".greeting-card").remove()
RemoveGreeting(ch) ==
    SelectSeq(ch, LAMBDA n : n.cls # "greeting-card")

GreetingCard == [cls |-> "greeting-card", id |-> NoBubble, html |-> <<"Hello">>]

\* jQuery .html(x) on the element with identity id, if it is in the transcript
SetHtml(ch, id, html) ==
    [i \in DOMAIN ch |-> IF ch[i].id = id /\ id # NoBubble
                         THEN [ch[i] EXCEPT !.html = html] ELSE ch[i]]

----------------------------------------------------------------------------
(* gemini_chat_ui.js *)

\* add_to_history putting the new entry first in the log (unshift for push)
add_to_history_unshift(st, role, text, id, turn) ==
    LET ch == RemoveGreeting(st.chat_history)
        node == [cls |-> role, id |-> id, html |-> sanitize(makeHtml(text))]
    IN [chat_history |-> Append(ch, node),
        conversation |-> <<Entry(role, text, turn)>> \o st.conversation,
        bubble |-> id]

\* add_to_history(role, text) on the pair st = [chat_history, conversation];
\* the result also carries the bubble the function returns.  id is the
\* identity of the new bubble element: the turn's number for the bubble
\* send_message keeps a reference to, NoBubble for the bubbles nobody keeps.
\* turn is the send whose handler makes the call.
add_to_history(st, role, text, id, turn) ==
    LET ch == RemoveGreeting(st.chat_history)
        node == [cls |-> role, id |-> id, html |-> sanitize(makeHtml(text))]
    IN [chat_history |-> Append(ch, node),
        conversation |-> Append(st.conversation, Entry(role, text, turn)),
        bubble |-> id]

\* load_conversations(): one more get_conversations call in flight
load_conversations ==
    /\ pending_lists < MaxPendingLists
    /\ pending_lists' = pending_lists + 1

\* send_message(prompt, context), with input the text the textarea holds
\* when it is called.  prompt and context go into the call's args as they
\* are and are read nowhere else; the prompt sent is the text of the user
\* entry the send pushes.
send_message(prompt, context, input) ==
    LET p == IF Falsy(prompt) THEN trim(input) ELSE prompt.s
    IN IF p = <<>>
       THEN \* early return
            UNCHANGED vars
       ELSE LET t == Len(turns) + 1
                st0 == [chat_history |-> chat_history, conversation |-> conversation]
                st1 == add_to_history(st0, "user", p, NoBubble, t)
                st2 == add_to_history(st1, "gemini", <<>>, t, t)
                call == [conversation_id |-> currentConversation,
                         error |-> FALSE,     \* the error callback has run
                         nchunks |-> 0,       \* message chunks delivered
                         ended |-> FALSE]     \* end_of_stream delivered
            IN /\ Len(turns) < MaxTurns
               /\ chat_history' = st2.chat_history
               /\ conversation' = st2.conversation
               /\ chat_input_val' = <<>>
               /\ chat_input_disabled' = TRUE
               /\ send_btn_visible' = FALSE
               /\ spinner_visible' = TRUE
               /\ streaming_bubble' = st2.bubble
               /\ full_response' = <<>>
               /\ turns' = Append(turns, call)
               /\ UNCHANGED <<currentConversation, conversations_list,
                              pending_lists, pending_loads, showdown_loaded, path,
                      saved, more_vars>>

\* The textarea: while it is enabled its text is the user's to edit, so what
\* a handler reads from it is any text; a disabled textarea keeps the text
\* the program wrote last (chat_input_val).
InputNow == IF chat_input_disabled THEN {chat_input_val} ELSE InputTexts

\* send_btn.on("click", () => send_message()); a hidden button takes no click
ClickSend(input) ==
    /\ send_btn_visible
    /\ input \in InputNow
    /\ send_message(Undefined, "undefined", input)

\* chat_input.on("keydown", ...Enter...); a disabled textarea gets no key events
PressEnter(input) ==
    /\ ~chat_input_disabled
    /\ input \in InputNow
    /\ send_message(Undefined, "undefined", input)

\* container.data("send_message")(prompt, context)
ExposedSend(prompt, context, input) ==
    /\ input \in InputNow
    /\ send_message(prompt, context, input)

\* the conversation turn t belongs to: the one it was sent for, or a new one
ConvOf(t) ==
    IF turns[t].conversation_id # NoConv THEN turns[t].conversation_id
    ELSE AssignedId(t)

\* the text of the k-th chunk the backend streams for a turn
ChunkText(k) == IF k % 2 = 1 THEN <<"a">> ELSE <<"b">>

\* what the next gemini_chat_update event of turn t may carry
EventData(t) ==
    { d \in [conversation_id : {NoConv, ConvOf(t)},
             message : {<<>>, ChunkText(turns[t].nchunks + 1)},
             end_of_stream : BOOLEAN] :
        /\ d.message # <<>> => turns[t].nchunks < MaxChunks
        /\ d.conversation_id # NoConv \/ d.message # <<>> \/ d.end_of_stream }

\* a call the backend has finished (end_of_stream sent): nothing more comes
\* of it, its details are dropped
Finished == [conversation_id |-> NoConv, error |-> FALSE, nchunks |-> 0,
             ended |-> TRUE]

\* the adoption test without its second half: any id carried is adopted
adopts_any_id(conversation_id) == conversation_id # NoConv

\* data.conversation_id && !currentConversation
adopts(conversation_id) ==
    conversation_id # NoConv /\ currentConversation = NoConv

\* the handler pushing every chunk it receives to the message log
gemini_chat_update_logging_chunks(t, data) ==
    LET adopt == adopts(data.conversation_id)
        fr == IF data.message # <<>> THEN full_response \o data.message
              ELSE full_response
        ch == IF data.message # <<>> /\ streaming_bubble # NoBubble
              THEN SetHtml(chat_history, streaming_bubble, sanitize(makeHtml(fr)))
              ELSE chat_history
    IN /\ t \in DOMAIN turns
       /\ ~turns[t].ended
       /\ data \in EventData(t)
       /\ IF adopt
          THEN /\ currentConversation' = data.conversation_id
               /\ load_conversations
          ELSE UNCHANGED <<currentConversation, pending_lists>>
       /\ chat_history' = ch
       /\ IF data.end_of_stream
          THEN /\ chat_input_disabled' = FALSE
               /\ spinner_visible' = FALSE
               /\ send_btn_visible' = TRUE
               /\ streaming_bubble' = NoBubble
               /\ full_response' = <<>>
          ELSE /\ full_response' = fr
               /\ UNCHANGED <<chat_input_disabled, spinner_visible,
                              send_btn_visible, streaming_bubble>>
       /\ turns' = [turns EXCEPT ![t] =
                      IF data.end_of_stream THEN Finished
                      ELSE [@ EXCEPT !.nchunks =
                              @ + (IF data.message # <<>> THEN 1 ELSE 0)]]
       /\ conversation' = IF data.message # <<>>
                          THEN Append(conversation, Entry("gemini", data.message, t))
                          ELSE conversation
       /\ UNCHANGED <<chat_input_val, conversations_list,
                      pending_loads, showdown_loaded, path,
                      saved, more_vars>>

\* frappe.realtime.on("gemini_chat_update", function (data) {...})
\* The channel delivers the events of a turn in order, up to its end_of_stream.
gemini_chat_update(t, data) ==
    LET adopt == adopts(data.conversation_id)
        fr == IF data.message # <<>> THEN full_response \o data.message
              ELSE full_response
        ch == IF data.message # <<>> /\ streaming_bubble # NoBubble
              THEN SetHtml(chat_history, streaming_bubble, sanitize(makeHtml(fr)))
              ELSE chat_history
    IN /\ t \in DOMAIN turns
       /\ ~turns[t].ended
       /\ data \in EventData(t)
       /\ IF adopt
          THEN /\ currentConversation' = data.conversation_id
               /\ load_conversations
          ELSE UNCHANGED <<currentConversation, pending_lists>>
       /\ chat_history' = ch
       /\ IF data.end_of_stream
          THEN /\ chat_input_disabled' = FALSE
               /\ spinner_visible' = FALSE
               /\ send_btn_visible' = TRUE
               /\ streaming_bubble' = NoBubble
               /\ full_response' = <<>>
          ELSE /\ full_response' = fr
               /\ UNCHANGED <<chat_input_disabled, spinner_visible,
                              send_btn_visible, streaming_bubble>>
       /\ turns' = [turns EXCEPT ![t] =
                      IF data.end_of_stream THEN Finished
                      ELSE [@ EXCEPT !.nchunks =
                              @ + (IF data.message # <<>> THEN 1 ELSE 0)]]
       /\ UNCHANGED <<conversation, chat_input_val, conversations_list,
                      pending_loads, showdown_loaded, path,
                      saved, more_vars>>

ErrorPrefix == <<"Error: ">>

\* the error callback without its three UI lines: the input stays disabled,
\* the spinner stays
stream_chat_error_stays_busy(t, reason) ==
    LET st0 == [chat_history |-> chat_history, conversation |-> conversation]
        st1 == add_to_history(st0, "gemini", ErrorPrefix \o reason, NoBubble, t)
    IN /\ t \in DOMAIN turns
       /\ ~turns[t].error
       /\ ~turns[t].ended
       /\ chat_history' = st1.chat_history
       /\ conversation' = st1.conversation
       /\ turns' = [turns EXCEPT ![t].error = TRUE]
       /\ UNCHANGED <<currentConversation, chat_input_val, chat_input_disabled,
                      spinner_visible, send_btn_visible, streaming_bubble,
                      full_response, conversations_list, pending_lists,
                      pending_loads, showdown_loaded, path, saved, more_vars>>

\* the error callback rolling the turn back: the entries of turn t leave
\* the log before the error entry is added
stream_chat_error_rollback(t, reason) ==
    LET kept == SelectSeq(conversation, LAMBDA e : e.turn # t)
        st0 == [chat_history |-> chat_history, conversation |-> kept]
        st1 == add_to_history(st0, "gemini", ErrorPrefix \o reason, NoBubble, t)
    IN /\ t \in DOMAIN turns
       /\ ~turns[t].error
       /\ ~turns[t].ended
       /\ chat_input_disabled' = FALSE
       /\ spinner_visible' = FALSE
       /\ send_btn_visible' = TRUE
       /\ chat_history' = st1.chat_history
       /\ conversation' = st1.conversation
       /\ turns' = [turns EXCEPT ![t].error = TRUE]
       /\ UNCHANGED <<currentConversation, chat_input_val, streaming_bubble,
                      full_response, conversations_list, pending_lists,
                      pending_loads, showdown_loaded, path, saved, more_vars>>

\* error: function (r) {...} of the stream_chat call of turn t
stream_chat_error(t, reason) ==
    LET st0 == [chat_history |-> chat_history, conversation |-> conversation]
        st1 == add_to_history(st0, "gemini", ErrorPrefix \o reason, NoBubble, t)
    IN /\ t \in DOMAIN turns
       /\ ~turns[t].error
       /\ ~turns[t].ended
       /\ chat_input_disabled' = FALSE
       /\ spinner_visible' = FALSE
       /\ send_btn_visible' = TRUE
       /\ chat_history' = st1.chat_history
       /\ conversation' = st1.conversation
       /\ turns' = [turns EXCEPT ![t].error = TRUE]
       /\ UNCHANGED <<currentConversation, chat_input_val, streaming_bubble,
                      full_response, conversations_list, pending_lists,
                      pending_loads, showdown_loaded, path,
                      saved, more_vars>>

----------------------------------------------------------------------------
(* The backend's answers *)

NoMessage == [ok |-> FALSE]

\* get_conversations: r.message is missing, or the stored conversations
ListResponses ==
    {NoMessage, [ok |-> TRUE, list |-> [i \in 1..NumStored |-> i]]}

\* JSON text
EmptyString == [str |-> "", val |-> <<>>]
JSON_stringify(v) == [str |-> "json", val |-> v]
JSON_parse(j) == j.val
\* x || "[]"
OrEmptyArray(j) == IF j = EmptyString THEN JSON_stringify(<<>>) ELSE j

\* the conversation field of the stored record of id: a full turn in one
\* conversation, nothing in the next
StoredConversation(id) ==
    IF id % 2 = 1
    THEN JSON_stringify(<<Msg("user", <<"h">>), Msg("gemini", <<"a">>)>>)
    ELSE EmptyString

\* get_conversation(id): r.message is missing, or the record of id
LoadResponses(id) ==
    {NoMessage,
     [ok |-> TRUE, name |-> id, conversation |-> StoredConversation(id)]}

----------------------------------------------------------------------------
(* gemini_chat_ui.js, continued *)

\* callback of load_conversations
load_conversations_callback(r) ==
    /\ pending_lists > 0
    /\ r \in ListResponses
    /\ pending_lists' = pending_lists - 1
    /\ conversations_list' =
         IF r.ok
         THEN [i \in DOMAIN r.list |->
                 [name |-> r.list[i], active |-> r.list[i] = currentConversation]]
         ELSE <<>>
    /\ UNCHANGED <<currentConversation, conversation, chat_history,
                   chat_input_val, chat_input_disabled, send_btn_visible,
                   spinner_visible, streaming_bubble, full_response, turns,
                   pending_loads, showdown_loaded, path,
                      saved, more_vars>>

\* load_conversation(conversation_id): the request
load_conversation(conversation_id) ==
    /\ Len(pending_loads) < MaxPendingLoads
    /\ pending_loads' = Append(pending_loads, conversation_id)

\* conversations_list.on("click", ".list-group-item", ...)
ClickConversation(i) ==
    /\ i \in DOMAIN conversations_list
    /\ load_conversation(conversations_list[i].name)
    /\ UNCHANGED <<currentConversation, conversation, chat_history,
                   chat_input_val, chat_input_disabled, send_btn_visible,
                   spinner_visible, streaming_bubble, full_response,
                   conversations_list, turns, pending_lists, showdown_loaded,
                   path,
                      saved, upload_vars, page_vars>>
    /\ superseded' = Len(pending_loads)

\* conversation.forEach((msg) => add_to_history(msg.role, msg.text)):
\* forEach visits the indices below the length the array had at the call
RECURSIVE ForEachAdd(_, _, _)
ForEachAdd(st, i, len) ==
    IF i > len THEN st
    ELSE ForEachAdd(add_to_history(st, st.conversation[i].role,
                                   st.conversation[i].text, NoBubble, 0),
                    i + 1, len)

RemoveAt(s, i) == SubSeq(s, 1, i - 1) \o SubSeq(s, i + 1, Len(s))

\* callback of load_conversation
load_conversation_callback(i, r) ==
    /\ i \in DOMAIN pending_loads
    /\ r \in LoadResponses(pending_loads[i])
    /\ pending_loads' = RemoveAt(pending_loads, i)
    /\ IF r.ok
       THEN LET parsed == JSON_parse(OrEmptyArray(r.conversation))
                st == ForEachAdd([chat_history |-> <<>>, conversation |-> parsed],
                                 1, Len(parsed))
            IN /\ currentConversation' = r.name
               /\ chat_history' = st.chat_history
               /\ conversation' = st.conversation
               /\ load_conversations
       ELSE UNCHANGED <<currentConversation, chat_history, conversation,
                        pending_lists>>
    /\ UNCHANGED <<turns, chat_input_val, chat_input_disabled, send_btn_visible,
                   spinner_visible, streaming_bubble, full_response,
                   conversations_list, showdown_loaded, path,
                      saved, upload_vars, page_vars>>
    /\ superseded' = IF i <= superseded THEN superseded - 1 ELSE superseded

\* show_greeting(): chat_history.html(greeting)
show_greeting == <<GreetingCard>>

\* the New chat handler without its load_conversations() call
ClickNewChat_no_refresh ==
    /\ currentConversation' = NoConv
    /\ conversation' = <<>>
    /\ chat_history' = show_greeting
    /\ UNCHANGED <<chat_input_val, chat_input_disabled, send_btn_visible,
                   spinner_visible, streaming_bubble, full_response,
                   conversations_list, turns, pending_lists, pending_loads,
                   showdown_loaded, path, saved, upload_vars, page_vars>>
    /\ superseded' = Len(pending_loads)

\* new_chat_btn.on("click", ...)
ClickNewChat ==
    /\ currentConversation' = NoConv
    /\ conversation' = <<>>
    /\ chat_history' = show_greeting
    /\ load_conversations
    /\ UNCHANGED <<chat_input_val, chat_input_disabled, send_btn_visible,
                   spinner_visible, streaming_bubble, full_response,
                   conversations_list, turns, pending_loads, showdown_loaded,
                   path,
                      saved, upload_vars, page_vars>>
    /\ superseded' = Len(pending_loads)

\* let uploaded_file_uri = null
NoFile == 0
\* the variables of the other pages before any of their handlers has run
InitMore ==
    /\ uploaded_file_uri = NoFile
    /\ uploads = <<>>
    /\ superseded = 0
    /\ conversation_history = <<>>
    /\ attached_file_url = NoFile
    /\ search_input_val = <<>>
    /\ search_results = [html |-> <<>>, visible |-> FALSE, query |-> <<>>]
    /\ searches = <<>>
    /\ realtime_handlers = [complete |-> 0, failed |-> 0]
    /\ alerts = <<>>
    /\ backfill_calls = 0

\* createGeminiChatUI(parentElement): the state it leaves
Init ==
    /\ currentConversation = NoConv
    /\ conversation = <<>>
    /\ chat_history = show_greeting
    /\ chat_input_val = <<>>
    /\ chat_input_disabled = FALSE
    /\ send_btn_visible = TRUE
    /\ spinner_visible = FALSE
    /\ streaming_bubble = NoBubble
    /\ full_response = <<>>
    /\ conversations_list = <<>>
    /\ turns = <<>>
    /\ pending_lists = 1
    /\ pending_loads = <<>>
    /\ showdown_loaded = TRUE
    /\ path = NoConv
    /\ saved = <<>>
    /\ InitMore

Next ==
    \/ \E s \in InputTexts : ClickSend(s)
    \/ \E s \in InputTexts : PressEnter(s)
    \/ \E p \in PromptArgs, c \in Contexts, s \in InputTexts : ExposedSend(p, c, s)
    \/ \E t \in DOMAIN turns : \E d \in EventData(t) : gemini_chat_update(t, d)
    \/ \E t \in DOMAIN turns, r \in Reasons : stream_chat_error(t, r)
    \/ \E r \in ListResponses : load_conversations_callback(r)
    \/ \E i \in DOMAIN conversations_list : ClickConversation(i)
    \/ \E i \in DOMAIN pending_loads : \E r \in LoadResponses(pending_loads[i]) :
          load_conversation_callback(i, r)
    \/ ClickNewChat

Spec == Init /\ [][Next]_vars

----------------------------------------------------------------------------
(* Properties of the streaming widget *)

\* a send is in flight from its stream_chat call to its end_of_stream event
\* or its error callback
InFlight(t) == t \in DOMAIN turns /\ ~turns[t].ended /\ ~turns[t].error

\* the log holds entries pushed for turn t
InLog(t) == \E k \in DOMAIN conversation : conversation[k].turn = t

\* the text streamed so far for turn t: its chunks, in order
RECURSIVE ChunksUpTo(_)
ChunksUpTo(n) == IF n = 0 THEN <<>> ELSE ChunksUpTo(n - 1) \o ChunkText(n)
Delivered(t) == ChunksUpTo(turns[t].nchunks)

\* how a bubble shows text
Rendered(text) == sanitize(makeHtml(text))

Count(seq, Test(_)) == Cardinality({k \in DOMAIN seq : Test(seq[k])})

\* C1: at most one send is in flight at any time, whatever the entry point of
\* send_message and whatever events arrive.
C1_OneSendInFlight ==
    Cardinality({t \in DOMAIN turns : InFlight(t)}) <= 1

\* the record get_conversation returns for a request that finds it
Fetched(id) == [ok |-> TRUE, name |-> id, conversation |-> StoredConversation(id)]

\* C2: once the response of load_conversation(id) is processed, the message
\* log is the fetched sequence, the active id is the record's name and the
\* transcript has one bubble per fetched message, in order.
C2_LoadReplacesLog ==
    [][\A i \in DOMAIN pending_loads :
         LET r == Fetched(pending_loads[i])
             fetched == JSON_parse(OrEmptyArray(r.conversation))
         IN load_conversation_callback(i, r) =>
              /\ Messages(conversation') = fetched
              /\ currentConversation' = r.name
              /\ Len(chat_history') = Len(fetched)
              /\ \A k \in DOMAIN fetched :
                   /\ chat_history'[k].cls = fetched[k].role
                   /\ chat_history'[k].html = Rendered(fetched[k].text)]_vars

\* C3: while a turn streams, its assistant bubble shows the rendering of the
\* chunks delivered for it so far, concatenated in order.
C3_BubbleShowsChunks ==
    \A t \in DOMAIN turns : ~turns[t].ended =>
        \A k \in DOMAIN chat_history :
            chat_history[k].id = t =>
                chat_history[k].html = Rendered(Delivered(t))

\* C4: the assistant entry a send appended to the log (the one right after
\* its user entry) holds the text accumulated so far for the turn.
C4_LogEntryGrows ==
    \A t \in DOMAIN turns : ~turns[t].ended =>
        \A k \in DOMAIN conversation :
            ( /\ k > 1
              /\ conversation[k].turn = t
              /\ conversation[k - 1].turn = t
              /\ conversation[k - 1].role = "user" )
            => conversation[k].text = Delivered(t)

\* C5: after the error callback of a send rejected with reason R there is
\* exactly one assistant bubble and one assistant log entry more than just
\* after the send's user message was appended, the bubble shows "Error: R",
\* and the input is enabled again.
C5_OneErrorBubble ==
    [][\A t \in DOMAIN turns : \A r \in Reasons :
         stream_chat_error(t, r) =>
           /\ \A k \in DOMAIN conversation' :
                (conversation'[k].turn = t /\ conversation'[k].role = "user") =>
                   Cardinality({j \in (k + 1)..Len(conversation') :
                                  conversation'[j].role = "gemini"}) = 1
           /\ \A k \in DOMAIN chat_history' :
                \* bubble t is the first one after the user's bubble
                chat_history'[k].id = t =>
                   Cardinality({j \in k..Len(chat_history') :
                                  chat_history'[j].cls = "gemini"}) = 1
           /\ chat_history'[Len(chat_history')].html = Rendered(ErrorPrefix \o r)
           /\ ~chat_input_disabled' /\ send_btn_visible' /\ ~spinner_visible']_vars

\* the prompt send_message would use is empty or only whitespace
BlankPrompt(prompt, input) ==
    \/ ~Falsy(prompt) /\ trim(prompt.s) = <<>>
    \/ Falsy(prompt) /\ trim(input) = <<>>

\* C6: send_message with an empty or whitespace-only prompt, read from the
\* input box or passed as the argument, issues no call and changes neither
\* the log, nor the transcript, nor the state of the input.
C6_BlankPromptIgnored ==
    [][\A p \in PromptArgs, c \in Contexts, s \in InputTexts :
         (BlankPrompt(p, s) /\ ExposedSend(p, c, s)) =>
            UNCHANGED <<turns, conversation, chat_history, chat_input_disabled,
                        send_btn_visible, spinner_visible>>]_vars

\* turn t was abandoned: it is still in flight, and the log it was sent in
\* was replaced by New chat or by a loaded conversation
Abandoned(t) == InFlight(t) /\ ~InLog(t)

\* C7: the events of an abandoned turn leave the active conversation id, the
\* message log and the transcript as the new-chat / load operation left them.
C7_AbandonedTurnIgnored ==
    [][\A t \in DOMAIN turns : \A d \in EventData(t) :
         (Abandoned(t) /\ gemini_chat_update(t, d)) =>
            UNCHANGED <<currentConversation, conversation, chat_history>>]_vars

\* C8: the error callback clears the stream state as end_of_stream does, so
\* a chunk that arrives after it, before any new send, changes no bubble.
C8_ErrorClearsStream ==
    [][/\ \A t \in DOMAIN turns : \A r \in Reasons :
            stream_chat_error(t, r) =>
               streaming_bubble' = NoBubble /\ full_response' = <<>>
       /\ \A t \in DOMAIN turns : \A d \in EventData(t) :
            (t = Len(turns) /\ turns[t].error /\ gemini_chat_update(t, d)) =>
               chat_history' = chat_history]_vars

----------------------------------------------------------------------------
(* The unary chat page (unnamed/part_003) *)

MaxSuggestions == 2    \* options in a clarification response

\* the locations of the page: /app/gemini-chat (NoConv) and
\* /app/gemini-chat/<name> for the stored conversations
PagePaths == {NoConv} \cup (1..NumStored)

\* path.match(/^\/app\/gemini-chat\/(CON-\d{5,})$/): the id, or no match
PathMatch(p) == IF p \in ConvIds THEN p ELSE NoConv

\* .replace(/</g, "&lt;").replace(/>/g, "&gt;")
Escape(s) ==
    [i \in DOMAIN s |-> IF s[i] = "<" THEN "&lt;"
                        ELSE IF s[i] = ">" THEN "&gt;" ELSE s[i]]

\* bubble.text(text): a text node, no markup
TextNode(text) == <<"#text">> \o text

\* what add_to_history puts in the bubble: nothing for an empty text, the
\* showdown rendering once the script has loaded, the plain text before
page_render(text) ==
    IF text = <<>> THEN <<>>
    ELSE IF showdown_loaded THEN makeHtml(text) ELSE TextNode(text)

\* add_to_history(role, text) pushing whatever the role
page_add_to_history_any_role(st, role, text, turn) ==
    [chat_history |->
        Append(RemoveGreeting(st.chat_history),
               [cls |-> role, id |-> NoBubble, html |-> page_render(text)]),
     conversation |-> Append(st.conversation, Entry(role, text, turn))]

\* add_to_history(role, text) of the page: the bubble is appended for every
\* role, the log entry for every role but "thoughts"
page_add_to_history(st, role, text, turn) ==
    [chat_history |->
        Append(RemoveGreeting(st.chat_history),
               [cls |-> role, id |-> NoBubble, html |-> page_render(text)]),
     conversation |->
        IF role # "thoughts"
        THEN Append(st.conversation, Entry(role, text, turn))
        ELSE st.conversation]

\* a suggestion of the backend; label is <<>> when the backend sent none
Option(label, doctype, name, url) ==
    [label |-> label, doctype |-> doctype, name |-> name, url |-> url]
Urls == {"#1", "#2", "#3"}
AllOptions ==
    <<Option(<<"A">>, <<"D">>, <<"N">>, "#1"),
      Option(<<>>, <<"D">>, <<"N">>, "#2"),
      Option(<<"B">>, <<"D">>, <<"N">>, "#3")>>
Suggestions == SubSeq(AllOptions, 1, MaxSuggestions)

\* opt.label || `${opt.doctype}: ${opt.name}`
OptionLabel(opt) ==
    IF opt.label # <<>> THEN opt.label ELSE opt.doctype \o <<": ">> \o opt.name

\* the <li> items render_clarification_options builds, in forEach order
RECURSIVE OptionItems(_)
OptionItems(suggestions) ==
    IF suggestions = <<>> THEN <<>>
    ELSE <<"<li>", "<a>", Head(suggestions).url>>
         \o OptionLabel(Head(suggestions))
         \o <<"</a>", "</li>">>
         \o OptionItems(Tail(suggestions))

ClarificationContainer == "<div class=clarification-container>"

options_html(intro_text, suggestions) ==
    <<ClarificationContainer, "<p>">> \o intro_text \o <<"</p>", "<ol>">>
    \o OptionItems(suggestions) \o <<"</ol>", "</div>">>

\* render_clarification_options that also records the turn in the log
render_clarification_options_pushing(st, intro_text, suggestions) ==
    [chat_history |->
        Append(st.chat_history,
               [cls |-> "gemini", id |-> NoBubble,
                html |-> options_html(intro_text, suggestions)]),
     conversation |-> Append(st.conversation, Msg("gemini", intro_text))]

\* render_clarification_options(intro_text, suggestions): one bubble appended
\* to the transcript as it is; the greeting stays, the log is not touched
render_clarification_options(st, intro_text, suggestions) ==
    [chat_history |->
        Append(st.chat_history,
               [cls |-> "gemini", id |-> NoBubble,
                html |-> options_html(intro_text, suggestions)]),
     conversation |-> st.conversation]

\* a chat call that has returned
PageDone == [conversation_id |-> NoConv, loading |-> FALSE, len0 |-> 0]

\* send_message(prompt) of the page, with input the text of the textarea.
\* The call record keeps the conversation_id argument, the "Please Wait"
\* dialog, and len0, the length of the log when send_message was called
\* (read by the properties only).
page_send_message(prompt, input) ==
    LET p == IF Falsy(prompt) THEN trim(input) ELSE prompt.s
    IN IF p = <<>> THEN UNCHANGED vars
       ELSE LET t == Len(turns) + 1
                st0 == [chat_history |-> chat_history,
                        conversation |-> conversation]
                st1 == page_add_to_history(st0, "user", p, t)
            IN /\ Len(turns) < MaxTurns
               /\ chat_history' = st1.chat_history
               /\ conversation' = st1.conversation
               /\ chat_input_val' = <<>>
               /\ turns' = Append(turns,
                                  [conversation_id |-> currentConversation,
                                   loading |-> TRUE,
                                   len0 |-> Len(conversation)])
               /\ UNCHANGED <<currentConversation, chat_input_disabled,
                              send_btn_visible, spinner_visible,
                              streaming_bubble, full_response,
                              conversations_list, pending_lists,
                              pending_loads, showdown_loaded, path,
                      saved, more_vars>>

\* send_btn.on("click", () => send_message())
PageClickSend(input) == page_send_message(Undefined, input)

\* keydown with e.key === "Enter" && e.shiftKey
PageShiftEnter(input) == page_send_message(Undefined, input)

\* r.message of a chat callback: a string, an object (with or without a
\* response text), or nothing
ChatResponses(t) ==
    {[kind |-> "string", text |-> <<"a">>], [kind |-> "empty"]}
    \cup [kind : {"object"},
          thoughts : {<<>>, <<"t">>},
          response : {<<"a">>},
          suggestions : {<<>>, Suggestions},
          conversation_id : {ConvOf(t)}]
    \cup {[kind |-> "object", thoughts |-> <<>>, response |-> <<"a">>,
           suggestions |-> <<>>, conversation_id |-> NoConv]}
    \cup {[kind |-> "object", thoughts |-> <<>>, response |-> <<>>,
           suggestions |-> <<>>, conversation_id |-> ConvOf(t)]}

EmptyResponseText == <<"Sorry, I received an empty response. Please try again.">>

\* callback of the chat call of turn t
page_chat_callback(t, r) ==
    LET st0 == [chat_history |-> chat_history, conversation |-> conversation]
        st1 == IF r.thoughts # <<>>
               THEN page_add_to_history(st0, "thoughts", r.thoughts, t)
               ELSE st0
        st2 == IF Len(r.suggestions) > 0
               THEN render_clarification_options(st1, r.response, r.suggestions)
               ELSE page_add_to_history(st1, "gemini", r.response, t)
        st == CASE r.kind = "string" ->
                     page_add_to_history(st0, "gemini", r.text, t)
                [] r.kind = "object" -> st2
                [] r.kind = "empty" ->
                     page_add_to_history(st0, "gemini", EmptyResponseText, t)
        adopt == r.kind = "object" /\ adopts(r.conversation_id)
    IN /\ t \in DOMAIN turns
       /\ turns[t].loading
       /\ r \in ChatResponses(t)
       /\ chat_history' = st.chat_history
       /\ conversation' = st.conversation
       /\ turns' = [turns EXCEPT ![t] = PageDone]
       /\ IF adopt
          THEN currentConversation' = r.conversation_id /\ load_conversations
          ELSE UNCHANGED <<currentConversation, pending_lists>>
       /\ UNCHANGED <<chat_input_val, chat_input_disabled, send_btn_visible,
                      spinner_visible, streaming_bubble, full_response,
                      conversations_list, pending_loads, showdown_loaded, path,
                      saved, more_vars>>

\* what the error callback gets: r.message, r.statusText, or neither
ErrorResponses ==
    {[message |-> <<"T", "<">>, statusText |-> <<>>],
     [message |-> <<>>, statusText |-> <<"S">>],
     [message |-> <<>>, statusText |-> <<>>]}

UnknownError == <<"An unknown server error occurred.">>
RequestFailed == <<"Request failed: ">>

error_msg(r) ==
    IF r.message # <<>> THEN Escape(r.message)
    ELSE IF r.statusText # <<>> THEN RequestFailed \o r.statusText
    ELSE UnknownError

\* error callback of the chat call of turn t
page_chat_error(t, r) ==
    LET st0 == [chat_history |-> chat_history, conversation |-> conversation]
        st == page_add_to_history(st0, "gemini", ErrorPrefix \o error_msg(r), t)
    IN /\ t \in DOMAIN turns
       /\ turns[t].loading
       /\ chat_history' = st.chat_history
       /\ conversation' = st.conversation
       /\ turns' = [turns EXCEPT ![t] = PageDone]
       /\ UNCHANGED <<currentConversation, chat_input_val, chat_input_disabled,
                      send_btn_visible, spinner_visible, streaming_bubble,
                      full_response, conversations_list, pending_lists,
                      pending_loads, showdown_loaded, path,
                      saved, more_vars>>

\* the showdown script appended to document.head finishes loading
showdown_script_load ==
    /\ ~showdown_loaded
    /\ showdown_loaded' = TRUE
    /\ UNCHANGED <<currentConversation, conversation, chat_history,
                   chat_input_val, chat_input_disabled, send_btn_visible,
                   spinner_visible, streaming_bubble, full_response,
                   conversations_list, turns, pending_lists, pending_loads,
                   path,
                      saved, more_vars>>

\* callback of get_conversations in the page: the text of the widget's
page_load_conversations_callback(r) == load_conversations_callback(r)

\* conversation.forEach((msg) => add_to_history(msg.role, msg.text)) of the
\* page, over the indices the array had when forEach was called
RECURSIVE PageForEachAdd(_, _, _)
PageForEachAdd(st, i, len) ==
    IF i > len THEN st
    ELSE PageForEachAdd(
             page_add_to_history(st, st.conversation[i].role,
                                 st.conversation[i].text, 0),
             i + 1, len)

\* callback of the page's get_conversation call
page_load_conversation_callback(i, r) ==
    /\ i \in DOMAIN pending_loads
    /\ r \in LoadResponses(pending_loads[i])
    /\ pending_loads' = RemoveAt(pending_loads, i)
    /\ IF r.ok
       THEN LET parsed == JSON_parse(OrEmptyArray(r.conversation))
                st == PageForEachAdd([chat_history |-> <<>>,
                                      conversation |-> parsed],
                                     1, Len(parsed))
            IN /\ currentConversation' = r.name
               /\ chat_history' = st.chat_history
               /\ conversation' = st.conversation
               /\ load_conversations
       ELSE UNCHANGED <<currentConversation, chat_history, conversation,
                        pending_lists>>
    /\ UNCHANGED <<chat_input_val, chat_input_disabled, send_btn_visible,
                   spinner_visible, streaming_bubble, full_response,
                   conversations_list, turns, showdown_loaded, path,
                      saved, more_vars>>

\* click on New chat in the page
page_new_chat ==
    /\ path' = NoConv
    /\ currentConversation' = NoConv
    /\ conversation' = <<>>
    /\ chat_history' = show_greeting
    /\ load_conversations
    /\ UNCHANGED <<chat_input_val, chat_input_disabled, send_btn_visible,
                   spinner_visible, streaming_bubble, full_response,
                   conversations_list, turns, pending_loads, showdown_loaded,
                   saved, more_vars>>

\* click on an entry of the sidebar in the page
page_click_conversation(i) ==
    /\ i \in DOMAIN conversations_list
    /\ path' = conversations_list[i].name
    /\ load_conversation(conversations_list[i].name)
    /\ UNCHANGED <<currentConversation, conversation, chat_history,
                   chat_input_val, chat_input_disabled, send_btn_visible,
                   spinner_visible, streaming_bubble, full_response,
                   conversations_list, turns, pending_lists, showdown_loaded,
                   saved, more_vars>>

\* handle_initial_load() with the location at p: the effect on the
\* transcript and on the get_conversation calls in flight
handle_initial_load(p) ==
    IF PathMatch(p) # NoConv
    THEN load_conversation(PathMatch(p)) /\ UNCHANGED chat_history
    ELSE chat_history' = show_greeting /\ UNCHANGED pending_loads

\* popstate: the browser moved the location to p
popstate(p) ==
    /\ p \in PagePaths
    /\ path' = p
    /\ handle_initial_load(p)
    /\ UNCHANGED <<currentConversation, conversation, chat_input_val,
                   chat_input_disabled, send_btn_visible, spinner_visible,
                   streaming_bubble, full_response, conversations_list, turns,
                   pending_lists, showdown_loaded,
                   saved, more_vars>>

\* the page after on_page_load: load_conversations() and
\* handle_initial_load() have been called, no callback has run
InitPage ==
    /\ path \in PagePaths
    /\ currentConversation = NoConv
    /\ conversation = <<>>
    /\ chat_history = IF PathMatch(path) # NoConv THEN <<>> ELSE show_greeting
    /\ pending_loads = IF PathMatch(path) # NoConv THEN <<PathMatch(path)>> ELSE <<>>
    /\ chat_input_val = <<>>
    /\ chat_input_disabled = FALSE
    /\ send_btn_visible = TRUE
    /\ spinner_visible = FALSE
    /\ streaming_bubble = NoBubble
    /\ full_response = <<>>
    /\ conversations_list = <<>>
    /\ turns = <<>>
    /\ pending_lists = 1
    /\ showdown_loaded = FALSE
    /\ saved = <<>>
    /\ InitMore

NextPage ==
    \/ \E s \in InputTexts : PageClickSend(s)
    \/ \E s \in InputTexts : PageShiftEnter(s)
    \/ \E t \in DOMAIN turns : \E r \in ChatResponses(t) : page_chat_callback(t, r)
    \/ \E t \in DOMAIN turns, r \in ErrorResponses : page_chat_error(t, r)
    \/ showdown_script_load
    \/ \E r \in ListResponses : page_load_conversations_callback(r)
    \/ \E i \in DOMAIN conversations_list : page_click_conversation(i)
    \/ \E i \in DOMAIN pending_loads :
         \E r \in LoadResponses(pending_loads[i]) :
            page_load_conversation_callback(i, r)
    \/ page_new_chat
    \/ \E p \in PagePaths : popstate(p)

SpecPage == InitPage /\ [][NextPage]_vars

----------------------------------------------------------------------------
(* Properties of the unary chat page *)

IsClarification(node) ==
    node.html # <<>> /\ Head(node.html) = ClarificationContainer

\* the link targets a bubble lists, in the order it lists them
ListedUrls(node) == SelectSeq(node.html, LAMBDA tok : tok \in Urls)

IsBubble(node) == node.cls # "greeting-card"

\* r is a response that asks for clarification
AsksClarification(r) == r.kind = "object" /\ Len(r.suggestions) > 0

\* C9 as stated: after the response of a send that carries suggestions, the
\* log is as long as it was before send_message was called, and the turn is
\* shown as one clarification bubble listing the suggestions in order.
C9_LogLengthAsBeforeSend ==
    [][\A t \in DOMAIN turns : \A r \in ChatResponses(t) :
         (AsksClarification(r) /\ page_chat_callback(t, r)) =>
            /\ Len(conversation') = turns[t].len0
            /\ IsClarification(chat_history'[Len(chat_history')])
            /\ ListedUrls(chat_history'[Len(chat_history')])
                 = [k \in DOMAIN r.suggestions |-> r.suggestions[k].url]]_vars

\* C9: the response of a send that carries suggestions appends nothing to
\* the log: the log stays as send_message left it, with the user message as
\* the only entry of the turn, and the transcript gets one clarification
\* bubble listing the suggestions in the order received, after a thoughts
\* bubble when the response carries thoughts.
C9_ClarificationKeepsLog ==
    [][\A t \in DOMAIN turns : \A r \in ChatResponses(t) :
         (AsksClarification(r) /\ page_chat_callback(t, r)) =>
            /\ conversation' = conversation
            /\ \A k \in DOMAIN conversation' :
                 conversation'[k].turn = t => conversation'[k].role = "user"
            /\ Count(chat_history', IsClarification)
                 = Count(chat_history, IsClarification) + 1
            /\ Count(chat_history', IsBubble)
                 = Count(chat_history, IsBubble)
                   + (IF r.thoughts # <<>> THEN 2 ELSE 1)
            /\ IsClarification(chat_history'[Len(chat_history')])
            /\ ListedUrls(chat_history'[Len(chat_history')])
                 = [k \in DOMAIN r.suggestions |-> r.suggestions[k].url]]_vars

\* a send was answered with a clarification: the transcript ends with the
\* clarification bubble and the log holds the user message only
C9_Witness ==
    /\ turns # <<>> /\ turns[1] = PageDone
    /\ conversation = <<Entry("user", <<"h">>, 1)>>
    /\ chat_history # <<>>
    /\ IsClarification(chat_history[Len(chat_history)])
    /\ Len(ListedUrls(chat_history[Len(chat_history)])) = MaxSuggestions

ThoughtRoles == {"thoughts", "thought"}

\* C10: no entry of the in-memory log ever has role thoughts/thought, and
\* the thoughts of a response are displayed in the transcript.
C10_ThoughtsTransient ==
    [][/\ \A k \in DOMAIN conversation : conversation[k].role \notin ThoughtRoles
       /\ \A k \in DOMAIN conversation' : conversation'[k].role \notin ThoughtRoles
       /\ \A t \in DOMAIN turns : \A r \in ChatResponses(t) :
            (r.kind = "object" /\ r.thoughts # <<>> /\ page_chat_callback(t, r)) =>
               \E k \in DOMAIN chat_history' :
                  /\ chat_history'[k].cls = "thoughts"
                  /\ chat_history'[k].html
                       \in {makeHtml(r.thoughts), TextNode(r.thoughts)}]_vars

\* a response with thoughts was processed: the transcript shows them next to
\* the answer, the log holds the user message and the answer
C10_Witness ==
    /\ \E k \in DOMAIN chat_history : chat_history[k].cls = "thoughts"
    /\ \E k \in DOMAIN conversation : conversation[k].role = "gemini"
    /\ \E k \in DOMAIN conversation : conversation[k].role = "user"

----------------------------------------------------------------------------
(* Adoption of the conversation id *)

\* what a step that processes a carried id must do to the active id and to
\* the get_conversations calls in flight
AdoptionEffect(id) ==
    IF id # NoConv /\ currentConversation = NoConv
    THEN currentConversation' = id /\ pending_lists' = pending_lists + 1
    ELSE currentConversation' = currentConversation
         /\ pending_lists' = pending_lists

\* C11: a stream event that carries a conversation id while the active id
\* is null makes it the active id and issues exactly one get_conversations
\* call; with a non-null active id it changes neither; and the active id
\* changes only by such an adoption, by the callback of a load, or by New
\* chat.
C11_Adoption ==
    [][/\ \A t \in DOMAIN turns : \A d \in EventData(t) :
            AdoptionEffect(d.conversation_id) \/ ~gemini_chat_update(t, d)
       /\ currentConversation' # currentConversation =>
            \/ \E t \in DOMAIN turns : \E d \in EventData(t) :
                  d.conversation_id # NoConv /\ gemini_chat_update(t, d)
            \/ \E i \in DOMAIN pending_loads :
                  load_conversation_callback(i, Fetched(pending_loads[i]))
            \/ ClickNewChat]_vars

\* an id the backend assigned to a new conversation was adopted, and the
\* refresh it triggered is in flight
C11_Witness ==
    /\ currentConversation > NumStored
    /\ pending_lists > 0

\* The same for the chat responses of the unary page.
PageAdoption ==
    [][/\ \A t \in DOMAIN turns : \A r \in ChatResponses(t) :
            r.kind = "object" =>
               AdoptionEffect(r.conversation_id) \/ ~page_chat_callback(t, r)
       /\ currentConversation' # currentConversation =>
            \/ \E t \in DOMAIN turns : \E r \in ChatResponses(t) :
                  r.kind = "object" /\ r.conversation_id # NoConv
                  /\ page_chat_callback(t, r)
            \/ \E i \in DOMAIN pending_loads :
                  page_load_conversation_callback(i, Fetched(pending_loads[i]))
            \/ page_new_chat]_vars

----------------------------------------------------------------------------
(* The earlier chat page (unnamed/part_002): no greeting card, the greeting *)
(* is a message                                                             *)

GreetingText == <<"Hello! How can I help you today?">>

\* the bubble of role "thoughts": a heading and the text in a <pre>
thoughts_bubble(text) ==
    <<"<h6>", "Gemini's Thoughts", "</h6>", "<pre>">> \o text \o <<"</pre>">>

\* add_to_history(role, text) of part_002
p2_add_to_history(st, role, text, turn) ==
    [chat_history |->
        Append(st.chat_history,
               [cls |-> role, id |-> NoBubble,
                html |-> IF role = "thoughts" THEN thoughts_bubble(text)
                         ELSE page_render(text)]),
     conversation |->
        IF role # "thoughts"
        THEN Append(st.conversation, Entry(role, text, turn))
        ELSE st.conversation]

\* send_message(prompt) of part_002
p2_send_message(prompt, input) ==
    LET p == IF Falsy(prompt) THEN trim(input) ELSE prompt.s
    IN IF p = <<>> THEN UNCHANGED vars
       ELSE LET t == Len(turns) + 1
                st0 == [chat_history |-> chat_history,
                        conversation |-> conversation]
                st1 == p2_add_to_history(st0, "user", p, t)
            IN /\ Len(turns) < MaxTurns
               /\ chat_history' = st1.chat_history
               /\ conversation' = st1.conversation
               /\ chat_input_val' = <<>>
               /\ turns' = Append(turns,
                                  [conversation_id |-> currentConversation,
                                   loading |-> TRUE,
                                   len0 |-> Len(conversation)])
               /\ UNCHANGED <<currentConversation, chat_input_disabled,
                              send_btn_visible, spinner_visible,
                              streaming_bubble, full_response,
                              conversations_list, pending_lists,
                              pending_loads, showdown_loaded, path,
                      saved, more_vars>>

\* send_btn.on("click", () => send_message())
p2_click_send(input) ==
    /\ input \in InputTexts
    /\ p2_send_message(Undefined, input)

\* keydown with e.key === "Enter" && e.shiftKey
p2_shift_enter(input) ==
    /\ input \in InputTexts
    /\ p2_send_message(Undefined, input)

\* callback of the chat call of turn t
p2_chat_callback(t, r) ==
    LET st0 == [chat_history |-> chat_history, conversation |-> conversation]
        st1 == IF r.thoughts # <<>>
               THEN p2_add_to_history(st0, "thoughts", r.thoughts, t)
               ELSE st0
        st2 == IF Len(r.suggestions) > 0
               THEN render_clarification_options(st1, r.response, r.suggestions)
               ELSE p2_add_to_history(st1, "gemini", r.response, t)
        st == CASE r.kind = "string" ->
                     p2_add_to_history(st0, "gemini", r.text, t)
                [] r.kind = "object" -> st2
                [] r.kind = "empty" ->
                     p2_add_to_history(st0, "gemini", EmptyResponseText, t)
        adopt == r.kind = "object" /\ adopts(r.conversation_id)
    IN /\ t \in DOMAIN turns
       /\ turns[t].loading
       /\ r \in ChatResponses(t)
       /\ chat_history' = st.chat_history
       /\ conversation' = st.conversation
       /\ turns' = [turns EXCEPT ![t] = PageDone]
       /\ IF adopt
          THEN currentConversation' = r.conversation_id /\ load_conversations
          ELSE UNCHANGED <<currentConversation, pending_lists>>
       /\ UNCHANGED <<chat_input_val, chat_input_disabled, send_btn_visible,
                      spinner_visible, streaming_bubble, full_response,
                      conversations_list, pending_loads, showdown_loaded, path,
                      saved, more_vars>>

\* error callback of the chat call of turn t
p2_chat_error(t, r) ==
    LET st0 == [chat_history |-> chat_history, conversation |-> conversation]
        st == p2_add_to_history(st0, "gemini", ErrorPrefix \o error_msg(r), t)
    IN /\ t \in DOMAIN turns
       /\ turns[t].loading
       /\ chat_history' = st.chat_history
       /\ conversation' = st.conversation
       /\ turns' = [turns EXCEPT ![t] = PageDone]
       /\ UNCHANGED <<currentConversation, chat_input_val, chat_input_disabled,
                      send_btn_visible, spinner_visible, streaming_bubble,
                      full_response, conversations_list, pending_lists,
                      pending_loads, showdown_loaded, path,
                      saved, more_vars>>

\* callback of get_conversations in part_002
p2_load_conversations_callback(r) == load_conversations_callback(r)

\* conversation.forEach((msg) => add_to_history(msg.role, msg.text))
RECURSIVE p2_for_each_add(_, _, _)
p2_for_each_add(st, i, len) ==
    IF i > len THEN st
    ELSE p2_for_each_add(
             p2_add_to_history(st, st.conversation[i].role,
                               st.conversation[i].text, 0),
             i + 1, len)

\* callback of the get_conversation call of part_002
p2_load_conversation_callback(i, r) ==
    /\ i \in DOMAIN pending_loads
    /\ r \in LoadResponses(pending_loads[i])
    /\ pending_loads' = RemoveAt(pending_loads, i)
    /\ IF r.ok
       THEN LET parsed == JSON_parse(OrEmptyArray(r.conversation))
                st == p2_for_each_add([chat_history |-> <<>>,
                                       conversation |-> parsed],
                                      1, Len(parsed))
            IN /\ currentConversation' = r.name
               /\ chat_history' = st.chat_history
               /\ conversation' = st.conversation
               /\ load_conversations
       ELSE UNCHANGED <<currentConversation, chat_history, conversation,
                        pending_lists>>
    /\ UNCHANGED <<chat_input_val, chat_input_disabled, send_btn_visible,
                   spinner_visible, streaming_bubble, full_response,
                   conversations_list, turns, showdown_loaded, path,
                      saved, more_vars>>

\* click on New chat in part_002: the greeting goes through add_to_history
p2_new_chat ==
    LET st == p2_add_to_history([chat_history |-> <<>>, conversation |-> <<>>],
                                "gemini", GreetingText, 0)
    IN /\ currentConversation' = NoConv
       /\ chat_history' = st.chat_history
       /\ conversation' = st.conversation
       /\ load_conversations
       /\ UNCHANGED <<chat_input_val, chat_input_disabled, send_btn_visible,
                      spinner_visible, streaming_bubble, full_response,
                      conversations_list, turns, pending_loads,
                      showdown_loaded, path,
                      saved, more_vars>>

\* click on an entry of the sidebar in part_002
p2_click_conversation(i) ==
    /\ i \in DOMAIN conversations_list
    /\ load_conversation(conversations_list[i].name)
    /\ UNCHANGED <<currentConversation, conversation, chat_history,
                   chat_input_val, chat_input_disabled, send_btn_visible,
                   spinner_visible, streaming_bubble, full_response,
                   conversations_list, turns, pending_lists, showdown_loaded,
                   path,
                      saved, more_vars>>

\* part_002 after on_page_load: load_conversations() and
\* add_to_history("gemini", "Hello! ...") have been called
InitP2 ==
    /\ currentConversation = NoConv
    /\ conversation = <<Msg("gemini", GreetingText)>>
    /\ chat_history = <<[cls |-> "gemini", id |-> NoBubble,
                         html |-> TextNode(GreetingText)]>>
    /\ pending_loads = <<>>
    /\ chat_input_val = <<>>
    /\ chat_input_disabled = FALSE
    /\ send_btn_visible = TRUE
    /\ spinner_visible = FALSE
    /\ streaming_bubble = NoBubble
    /\ full_response = <<>>
    /\ conversations_list = <<>>
    /\ turns = <<>>
    /\ pending_lists = 1
    /\ showdown_loaded = FALSE
    /\ path = NoConv
    /\ saved = <<>>
    /\ InitMore

NextP2 ==
    \/ \E s \in InputTexts : p2_click_send(s)
    \/ \E s \in InputTexts : p2_shift_enter(s)
    \/ \E t \in DOMAIN turns : \E r \in ChatResponses(t) : p2_chat_callback(t, r)
    \/ \E t \in DOMAIN turns, r \in ErrorResponses : p2_chat_error(t, r)
    \/ showdown_script_load
    \/ \E r \in ListResponses : p2_load_conversations_callback(r)
    \/ \E i \in DOMAIN conversations_list : p2_click_conversation(i)
    \/ \E i \in DOMAIN pending_loads :
         \E r \in LoadResponses(pending_loads[i]) :
            p2_load_conversation_callback(i, r)
    \/ p2_new_chat

SpecP2 == InitP2 /\ [][NextP2]_vars

\* C12: New chat leaves a null active id, an empty log and a transcript
\* holding only the greeting; the greeting is not an entry of the log.
C12_NewChatClearsLog ==
    [][p2_new_chat =>
         /\ currentConversation' = NoConv
         /\ conversation' = <<>>
         /\ Len(chat_history') = 1
         /\ \A k \in DOMAIN conversation' :
              conversation'[k].text # GreetingText]_vars

\* the same for the streaming widget, whose greeting is a card
C12_WidgetNewChat ==
    [][ClickNewChat =>
         /\ currentConversation' = NoConv
         /\ conversation' = <<>>
         /\ chat_history' = <<GreetingCard>>]_vars

----------------------------------------------------------------------------
(* Sends of the unary page *)

\* the chat calls of the page that have not returned
Loading == {t \in DOMAIN turns : turns[t].loading}

\* C13: in the unary page a send issues exactly one chat call, and from
\* that call to its callback no further send issues a call or appends a
\* message: at most one chat call is in flight.
C13_OneChatInFlight ==
    /\ Cardinality(Loading) <= 1
    /\ \A t \in Loading :
         Cardinality({k \in DOMAIN conversation :
                        conversation[k].turn = t}) <= 1

----------------------------------------------------------------------------
(* The page with saved conversations (unnamed/part_000): the chat, the     *)
(* Save button and the list of saved conversations.  Its search panel only *)
(* edits the textarea.                                                     *)

MaxSaved == 1          \* conversations saved per run
MaxUploads == 2        \* files uploaded per run
MaxSearches == 2       \* search calls in flight
MaxRefresh == 2        \* refreshes of the settings form
MaxAlerts == 3         \* alerts shown per run

\* what add_to_history of part_000 puts in the bubble
p0_render(role, text) ==
    IF text = <<>> THEN <<>>
    ELSE IF role = "gemini" /\ showdown_loaded THEN makeHtml(text)
    ELSE TextNode(text)

\* add_to_history(role, text) of part_000: only user and gemini are logged
p0_add_to_history(st, role, text, turn) ==
    [chat_history |->
        Append(st.chat_history,
               [cls |-> role, id |-> NoBubble, html |-> p0_render(role, text)]),
     conversation |->
        IF role = "user" \/ role = "gemini"
        THEN Append(st.conversation, Entry(role, text, turn))
        ELSE st.conversation]

\* send_message() of part_000, with input the text of the textarea.  The
\* call record keeps the file_uri argument; uploaded_file_uri is reset
\* once the call is issued.
p0_send_message(input) ==
    LET prompt == trim(input)
    IN IF prompt = <<>> THEN UNCHANGED vars
       ELSE LET t == Len(turns) + 1
                st0 == [chat_history |-> chat_history,
                        conversation |-> conversation]
                st1 == p0_add_to_history(st0, "user", prompt, t)
            IN /\ input \in InputTexts
               /\ Len(turns) < MaxTurns
               /\ chat_history' = st1.chat_history
               /\ conversation' = st1.conversation
               /\ chat_input_val' = <<>>
               /\ turns' = Append(turns,
                                  [conversation_id |-> NoConv,
                                   loading |-> TRUE,
                                   len0 |-> Len(conversation),
                                   file_uri |-> uploaded_file_uri])
               /\ uploaded_file_uri' = NoFile
               /\ UNCHANGED <<currentConversation, chat_input_disabled,
                              send_btn_visible, spinner_visible,
                              streaming_bubble, full_response,
                              conversations_list, pending_lists,
                              pending_loads, showdown_loaded, path, saved,
                              uploads, superseded, page_vars>>

\* send_btn.on('click', send_message)
p0_click_send(input) ==
    /\ input \in InputTexts
    /\ p0_send_message(input)

\* keydown with e.key === 'Enter' && e.shiftKey
p0_shift_enter(input) ==
    /\ input \in InputTexts
    /\ p0_send_message(input)

\* r.message of the chat callback of part_000: {thoughts, answer}, a string,
\* or nothing
P0ChatResponses ==
    [kind : {"object"}, thoughts : {<<>>, <<"t">>}, answer : {<<"a">>}]
    \cup {[kind |-> "string"], [kind |-> "empty"]}

\* callback of the chat call of turn t; a string has no .answer and a
\* missing message has no text, so both give a gemini entry without text
p0_chat_callback(t, r) ==
    LET st0 == [chat_history |-> chat_history, conversation |-> conversation]
        st1 == IF r.thoughts # <<>>
               THEN p0_add_to_history(st0, "thought", r.thoughts, t)
               ELSE st0
        st == IF r.kind = "object"
              THEN p0_add_to_history(st1, "gemini", r.answer, t)
              ELSE p0_add_to_history(st0, "gemini", <<>>, t)
    IN /\ t \in DOMAIN turns
       /\ turns[t].loading
       /\ r \in P0ChatResponses
       /\ chat_history' = st.chat_history
       /\ conversation' = st.conversation
       /\ turns' = [turns EXCEPT ![t] = PageDone]
       /\ UNCHANGED <<currentConversation, chat_input_val, chat_input_disabled,
                      send_btn_visible, spinner_visible, streaming_bubble,
                      full_response, conversations_list, pending_lists,
                      pending_loads, showdown_loaded, path, saved, more_vars>>

\* error callback of the chat call of turn t: a dialog, nothing else
p0_chat_error(t) ==
    /\ t \in DOMAIN turns
    /\ turns[t].loading
    /\ turns' = [turns EXCEPT ![t] = PageDone]
    /\ UNCHANGED <<currentConversation, conversation, chat_history,
                   chat_input_val, chat_input_disabled, send_btn_visible,
                   spinner_visible, streaming_bubble, full_response,
                   conversations_list, pending_lists, pending_loads,
                   showdown_loaded, path, saved, more_vars>>

\* Save: the title prompt is answered and save_conversation is called with
\* JSON.stringify(conversation); the backend stores the text it is given
save_conversation ==
    /\ Len(saved) < MaxSaved
    /\ saved' = Append(saved, JSON_stringify(Messages(conversation)))
    /\ UNCHANGED <<currentConversation, conversation, chat_history,
                   chat_input_val, chat_input_disabled, send_btn_visible,
                   spinner_visible, streaming_bubble, full_response,
                   conversations_list, turns, pending_lists, pending_loads,
                   showdown_loaded, path, more_vars>>

\* click on View conversations: get_conversations is called
view_conversations ==
    /\ load_conversations
    /\ UNCHANGED <<currentConversation, conversation, chat_history,
                   chat_input_val, chat_input_disabled, send_btn_visible,
                   spinner_visible, streaming_bubble, full_response,
                   conversations_list, turns, pending_loads, showdown_loaded,
                   path, saved, more_vars>>

\* its callback: a dialog with one link per saved conversation
view_conversations_callback(ok) ==
    /\ pending_lists > 0
    /\ pending_lists' = pending_lists - 1
    /\ conversations_list' =
          IF ok THEN [i \in DOMAIN saved |-> [name |-> i, active |-> FALSE]]
          ELSE conversations_list
    /\ UNCHANGED <<currentConversation, conversation, chat_history,
                   chat_input_val, chat_input_disabled, send_btn_visible,
                   spinner_visible, streaming_bubble, full_response, turns,
                   pending_loads, showdown_loaded, path, saved, more_vars>>

\* click on a .saved-conversation link: get_conversation is called
saved_conversation_click(i) ==
    /\ i \in DOMAIN conversations_list
    /\ load_conversation(conversations_list[i].name)
    /\ UNCHANGED <<currentConversation, conversation, chat_history,
                   chat_input_val, chat_input_disabled, send_btn_visible,
                   spinner_visible, streaming_bubble, full_response,
                   conversations_list, turns, pending_lists, showdown_loaded,
                   path, saved, more_vars>>

\* conversation.forEach(msg => add_to_history(msg.role, msg.text))
RECURSIVE p0_for_each_add(_, _, _)
p0_for_each_add(st, i, len) ==
    IF i > len THEN st
    ELSE p0_for_each_add(
             p0_add_to_history(st, st.conversation[i].role,
                               st.conversation[i].text, 0),
             i + 1, len)

\* callback of get_conversation: r.message is the stored text, or missing
saved_conversation_callback(i, ok) ==
    /\ i \in DOMAIN pending_loads
    /\ pending_loads' = RemoveAt(pending_loads, i)
    /\ IF ok
       THEN LET parsed == JSON_parse(saved[pending_loads[i]])
                st == p0_for_each_add([chat_history |-> <<>>,
                                       conversation |-> parsed],
                                      1, Len(parsed))
            IN /\ conversation' = st.conversation
               /\ chat_history' = st.chat_history
               /\ conversations_list' = <<>>
       ELSE UNCHANGED <<conversation, chat_history, conversations_list>>
    /\ UNCHANGED <<currentConversation, chat_input_val, chat_input_disabled,
                   send_btn_visible, spinner_visible, streaming_bubble,
                   full_response, turns, pending_lists, showdown_loaded, path,
                   saved, more_vars>>

\* the upload_file call of a file the user picked: issued, not answered
PendingUpload == [state |-> "pending", at |-> 0]

\* change of .file-input with a file chosen: upload_file is called
file_input_change ==
    /\ Len(uploads) < MaxUploads
    /\ uploads' = Append(uploads, PendingUpload)
    /\ UNCHANGED <<currentConversation, conversation, chat_history,
                   chat_input_val, chat_input_disabled, send_btn_visible,
                   spinner_visible, streaming_bubble, full_response,
                   conversations_list, turns, pending_lists, pending_loads,
                   showdown_loaded, path, saved, uploaded_file_uri,
                   superseded, page_vars>>

\* callback of the upload_file call u.  The uri the backend gives upload u
\* is u.  The record keeps, for the properties, how many sends had been
\* issued when the answer came.
upload_file_callback(u, ok) ==
    /\ u \in DOMAIN uploads
    /\ uploads[u].state = "pending"
    /\ IF ok
       THEN /\ uploaded_file_uri' = u
            /\ uploads' = [uploads EXCEPT ![u] =
                             [state |-> "done", at |-> Len(turns)]]
       ELSE /\ uploads' = [uploads EXCEPT ![u] = [state |-> "failed", at |-> 0]]
            /\ UNCHANGED uploaded_file_uri
    /\ UNCHANGED <<currentConversation, conversation, chat_history,
                   chat_input_val, chat_input_disabled, send_btn_visible,
                   spinner_visible, streaming_bubble, full_response,
                   conversations_list, turns, pending_lists, pending_loads,
                   showdown_loaded, path, saved, superseded, page_vars>>

InitP0 ==
    /\ currentConversation = NoConv
    /\ conversation = <<>>
    /\ chat_history = <<>>
    /\ pending_loads = <<>>
    /\ chat_input_val = <<>>
    /\ chat_input_disabled = FALSE
    /\ send_btn_visible = TRUE
    /\ spinner_visible = FALSE
    /\ streaming_bubble = NoBubble
    /\ full_response = <<>>
    /\ conversations_list = <<>>
    /\ turns = <<>>
    /\ pending_lists = 0
    /\ showdown_loaded = FALSE
    /\ path = NoConv
    /\ saved = <<>>
    /\ InitMore

NextP0 ==
    \/ \E s \in InputTexts : p0_click_send(s)
    \/ \E s \in InputTexts : p0_shift_enter(s)
    \/ \E t \in DOMAIN turns : \E r \in P0ChatResponses : p0_chat_callback(t, r)
    \/ \E t \in DOMAIN turns : p0_chat_error(t)
    \/ showdown_script_load
    \/ save_conversation
    \/ view_conversations
    \/ \E ok \in BOOLEAN : view_conversations_callback(ok)
    \/ \E i \in DOMAIN conversations_list : saved_conversation_click(i)
    \/ \E i \in DOMAIN pending_loads, ok \in BOOLEAN :
         saved_conversation_callback(i, ok)
    \/ file_input_change
    \/ \E u \in DOMAIN uploads, ok \in BOOLEAN : upload_file_callback(u, ok)

SpecP0 == InitP0 /\ [][NextP0]_vars

\* C14: opening a saved conversation leaves in memory the sequence that was
\* saved, role and text pairwise and of the same length, so that saving
\* again stores the same sequence.
C14_RoundTrip ==
    [][\A i \in DOMAIN pending_loads :
         saved_conversation_callback(i, TRUE) =>
            Messages(conversation') = JSON_parse(saved[pending_loads[i]])]_vars

----------------------------------------------------------------------------
(* Loading twice *)

\* the session is as a load of record r leaves it: r's name is active, the
\* log is the one the load callback builds from r, and the transcript has
\* one bubble per fetched message, whatever their rendering
LoadedLog(r) ==
    LET parsed == JSON_parse(OrEmptyArray(r.conversation))
    IN PageForEachAdd([chat_history |-> <<>>, conversation |-> parsed],
                      1, Len(parsed)).conversation
JustLoaded(r) ==
    LET parsed == JSON_parse(OrEmptyArray(r.conversation))
    IN /\ currentConversation = r.name
       /\ conversation = LoadedLog(r)
       /\ Len(chat_history) = Len(parsed)
       /\ \A k \in DOMAIN parsed : chat_history[k].cls = parsed[k].role

\* C15: a second load of the same conversation, the stored record being the
\* same, leaves the transcript, the log and the active id as the first load
\* left them.
C15_LoadTwice ==
    [][\A i \in DOMAIN pending_loads :
         LET r == Fetched(pending_loads[i])
         IN (JustLoaded(r) /\ page_load_conversation_callback(i, r)) =>
               UNCHANGED <<currentConversation, conversation, chat_history>>]_vars

\* the same for the streaming widget
WidgetLoadTwice ==
    [][\A i \in DOMAIN pending_loads :
         LET r == Fetched(pending_loads[i])
         IN (JustLoaded(r) /\ load_conversation_callback(i, r)) =>
               UNCHANGED <<currentConversation, conversation, chat_history>>]_vars

----------------------------------------------------------------------------
(* The sidebar *)

\* the highlighted entries are those of the active conversation
HighlightIsActive ==
    \A i \in DOMAIN conversations_list :
        conversations_list[i].active
            <=> (conversations_list[i].name = currentConversation)

----------------------------------------------------------------------------
(* Two widgets in one browser: createGeminiChatUI called twice.  Each call *)
(* registers its own handler on the one "gemini_chat_update" channel, so   *)
(* this widget's handler also runs for the events of the other widget's    *)
(* turns.                                                                  *)

MaxOtherText == 1      \* accumulated text a chunk of the other widget joins

\* the id of the other widget's conversation
OtherConv == NumStored + MaxTurns + 1

\* what an event of a turn of the other widget may carry
OtherEventData ==
    { d \in [conversation_id : {NoConv, OtherConv},
             message : {<<>>, <<"x">>},
             end_of_stream : BOOLEAN] :
        d.conversation_id # NoConv \/ d.message # <<>> \/ d.end_of_stream }

\* this widget's handler run for an event of the other widget's turn
other_widget_update(data) ==
    LET adopt == adopts(data.conversation_id)
        fr == IF data.message # <<>> THEN full_response \o data.message
              ELSE full_response
        ch == IF data.message # <<>> /\ streaming_bubble # NoBubble
              THEN SetHtml(chat_history, streaming_bubble, sanitize(makeHtml(fr)))
              ELSE chat_history
    IN /\ data \in OtherEventData
       /\ data.message # <<>> => Len(full_response) < MaxOtherText
       /\ IF adopt
          THEN /\ currentConversation' = data.conversation_id
               /\ load_conversations
          ELSE UNCHANGED <<currentConversation, pending_lists>>
       /\ chat_history' = ch
       /\ IF data.end_of_stream
          THEN /\ chat_input_disabled' = FALSE
               /\ spinner_visible' = FALSE
               /\ send_btn_visible' = TRUE
               /\ streaming_bubble' = NoBubble
               /\ full_response' = <<>>
          ELSE /\ full_response' = fr
               /\ UNCHANGED <<chat_input_disabled, spinner_visible,
                              send_btn_visible, streaming_bubble>>
       /\ UNCHANGED <<conversation, chat_input_val, conversations_list, turns,
                      pending_loads, showdown_loaded, path, saved, more_vars>>

\* this widget sending and receiving, next to the other widget's events
NextTwo ==
    \/ \E s \in InputTexts : ClickSend(s)
    \/ \E s \in InputTexts : PressEnter(s)
    \/ \E t \in DOMAIN turns : \E d \in EventData(t) : gemini_chat_update(t, d)
    \/ \E t \in DOMAIN turns, r \in Reasons : stream_chat_error(t, r)
    \/ \E r \in ListResponses : load_conversations_callback(r)
    \/ \E d \in OtherEventData : other_widget_update(d)

SpecTwo == Init /\ [][NextTwo]_vars

\* C17: the events of a turn sent by the other widget change neither this
\* widget's active conversation id, nor its accumulated text, streaming
\* target, message log or input state.
C17_NoSharing ==
    [][\A d \in OtherEventData :
         other_widget_update(d) =>
            UNCHANGED <<currentConversation, full_response, streaming_bubble,
                        conversation, chat_input_disabled>>]_vars

----------------------------------------------------------------------------
(* Failed sends *)

\* the step keeps every entry of the log where it was
KeepsLog ==
    /\ Len(conversation') >= Len(conversation)
    /\ SubSeq(conversation', 1, Len(conversation)) = conversation

\* the step issues no call and touches no call but that of turn t
NoOtherCall(t) ==
    /\ Len(turns') = Len(turns)
    /\ \A u \in DOMAIN turns : u # t => turns'[u] = turns[u]

\* C18: the error callback of a send keeps the log as it was, the user
\* message of the send included, and issues no call; a call is issued only
\* by a send the user makes.
C18_NoRetryNoRollback ==
    [][/\ \A t \in DOMAIN turns : \A r \in Reasons :
            (KeepsLog /\ NoOtherCall(t)) \/ ~stream_chat_error(t, r)
       /\ Len(turns') > Len(turns) =>
            \/ \E x \in InputTexts : ClickSend(x) \/ PressEnter(x)
            \/ \E q \in PromptArgs, c \in Contexts, x \in InputTexts :
                  ExposedSend(q, c, x)]_vars

\* a send has failed and nothing else was sent: its user message is in the
\* log, followed by the error entry
C18_Witness ==
    /\ Len(turns) = 1
    /\ turns[1].error
    /\ \E k \in DOMAIN conversation :
         /\ conversation[k].turn = 1
         /\ conversation[k].role = "user"
         /\ conversation[Len(conversation)].text = ErrorPrefix \o <<"T", "<">>

\* the same for the chat calls of the unary page
PageNoRetryNoRollback ==
    [][/\ \A t \in DOMAIN turns : \A r \in ErrorResponses :
            (KeepsLog /\ NoOtherCall(t)) \/ ~page_chat_error(t, r)
       /\ Len(turns') > Len(turns) =>
            \E x \in InputTexts : PageClickSend(x) \/ PageShiftEnter(x)]_vars

-----------------------------------------------------------------------------
(* Replies without a usable text, unary page. *)

\* r.message carries nothing to show: it is falsy, or it is an object with
\* no response text and no suggestions
Unusable(r) ==
    \/ r.kind = "empty"
    \/ r.kind = "object" /\ r.response = <<>> /\ r.suggestions = <<>>

\* the step renders and appends one assistant message with the generic
\* empty-response text, and the call of turn t is over
EmptyReply(t) ==
    /\ chat_history' =
          Append(RemoveGreeting(chat_history),
                 [cls |-> "gemini", id |-> NoBubble,
                  html |-> page_render(EmptyResponseText)])
    /\ conversation' =
          Append(conversation, Entry("gemini", EmptyResponseText, t))
    /\ ~turns'[t].loading

\* C19: whenever the chat success callback of the unary page receives no
\* usable reply (a null or empty message, or an object whose response text
\* is missing or empty and that has no suggestions), exactly one assistant
\* message with the generic empty-response text is rendered and appended,
\* and the "Please Wait" dialog of the call is gone.
C19_EmptyResponseMessage ==
    [][\A t \in DOMAIN turns : \A r \in ChatResponses(t) :
          Unusable(r) => (EmptyReply(t) \/ ~page_chat_callback(t, r))]_vars

\* the falsy r.message alone does get the generic text
FalsyReplyMessage ==
    [][\A t \in DOMAIN turns :
          EmptyReply(t) \/ ~page_chat_callback(t, [kind |-> "empty"])]_vars

-----------------------------------------------------------------------------
(* Liveness of the widget's session. *)

\* the backend closes turn t: its end_of_stream event is delivered, or the
\* error callback of its stream_chat call runs
Terminal(t) ==
    /\ InFlight(t)
    /\ \/ \E d \in EventData(t) : d.end_of_stream /\ gemini_chat_update(t, d)
       \/ \E r \in Reasons : stream_chat_error(t, r)

\* the widget under a backend that closes every turn it was sent
SpecLive == Spec /\ \A t \in 1..MaxTurns : WF_vars(Terminal(t))

\* IDLE: the input is enabled, the send button shown, the spinner hidden
Idle == ~chat_input_disabled /\ send_btn_visible /\ ~spinner_visible

\* C20: every accepted send eventually returns the session to IDLE (input
\* enabled, send button shown, spinner hidden) once the backend delivers
\* the end_of_stream event or an error for that turn, also when earlier
\* turns have failed or were abandoned.
C20_EventuallyIdle ==
    \A t \in 1..MaxTurns : InFlight(t) ~> (Idle /\ ~InFlight(t))

\* a second turn has ended in IDLE after the first one failed
C20_Witness ==
    /\ Len(turns) = 2
    /\ turns[1].error
    /\ turns[2].ended
    /\ Idle

-----------------------------------------------------------------------------
(* Uploaded files as context of the next message (unnamed/part_000). *)

\* the step issues a chat call
SendStep == Len(turns') = Len(turns) + 1

\* the file_uri argument of the call the step issues
Carried == turns'[Len(turns')].file_uri

\* upload u was answered after the last send
Fresh(u) == uploads[u].state = "done" /\ uploads[u].at = Len(turns)

\* C21: once an upload has completed, the next send carries that file's
\* reference; a send carries no reference unless an upload has completed
\* since the send before it, and never the reference of an upload that is
\* still pending.
C21_UploadIsNextContext ==
    [][SendStep =>
         /\ \A u \in DOMAIN uploads : Fresh(u) => Carried = u
         /\ Carried # NoFile => Fresh(Carried)
         /\ \A u \in DOMAIN uploads :
              uploads[u].state = "pending" => Carried # u]_vars

\* the two limits alone: nothing is carried twice, nothing pending is carried
CarriesOnlyFresh ==
    [][SendStep =>
         /\ Carried # NoFile => Fresh(Carried)
         /\ \A u \in DOMAIN uploads :
              uploads[u].state = "pending" => Carried # u]_vars

-----------------------------------------------------------------------------
(* The message log of the widget between two resets. *)

\* the step is a reset of the log: New chat, or the callback of a
\* load_conversation call
IsReset ==
    \/ ClickNewChat
    \/ \E i \in DOMAIN pending_loads : \E r \in LoadResponses(pending_loads[i]) :
          load_conversation_callback(i, r)

\* one add_to_history call on the current log puts exactly one entry at
\* its end
AddAppendsOne ==
    \A role \in {"user", "gemini"} :
        add_to_history([chat_history |-> chat_history,
                        conversation |-> conversation],
                       role, <<"a">>, NoBubble, 0).conversation
          = Append(conversation, Entry(role, <<"a">>, 0))

-----------------------------------------------------------------------------
(* Conversations requested one after the other, widget. *)

\* the get_conversation call i was issued before the user's latest choice
\* (a click on another conversation, or New chat)
Stale(i) == i <= superseded

\* C23: when the user picks a conversation and then another one, or New
\* chat, before the first response has arrived, the session ends up with
\* the latest choice: the response that is processed last, if it belongs to
\* an earlier choice, leaves the active id, the message log and the
\* transcript as they are.
C23_LastRequestWins ==
    [][\A i \in DOMAIN pending_loads :
         \A r \in LoadResponses(pending_loads[i]) :
            (Stale(i) /\ Len(pending_loads) = 1) =>
               \/ UNCHANGED <<currentConversation, conversation, chat_history>>
               \/ ~load_conversation_callback(i, r)]_vars

-----------------------------------------------------------------------------
(* One conversation per session, unary page. *)

\* the chat call of turn t was issued without a conversation id, it has
\* not returned, and the log it was sent in is still the current one
PendingFirstTurn(t) ==
    /\ turns[t].loading
    /\ turns[t].conversation_id = NoConv
    /\ InLog(t)

\* C24: in the unary page the turns sent between two resets belong to one
\* conversation: no chat call is issued with a null conversation_id while
\* an earlier call of the same session went out with a null id.
C24_OneConversationPerSession ==
    [][(SendStep /\ turns'[Len(turns')].conversation_id = NoConv) =>
          ~\E t \in DOMAIN turns : PendingFirstTurn(t)]_vars

-----------------------------------------------------------------------------
(* The chat page with a "..." placeholder per send                         *)
(* (page/gemini_chat/gemini_chat.js 596-741, unnamed/part_001).  The       *)
(* transcript is chat_history; page.converter is set when the showdown     *)
(* script has loaded (showdown_loaded).  The page keeps no message log.    *)

\* a token naming turn t in the texts the backend returns
TurnTok(t) == IF t = 1 THEN "1" ELSE IF t = 2 THEN "2" ELSE "3+"

\* r.message of the chat call of turn t
Reply(t) == <<"re", TurnTok(t)>>

\* r.message.message of the error callback of turn t, <<>> when missing
PhErrors(t) == {<<>>, <<"err", TurnTok(t)>>}

Thinking == <<"...">>
PhErrorDefault == <<"Sorry, an error occurred. Please check the Error Log for details.">>

\* what a bot bubble shows for a text: html once page.converter is set
ph_render(text) == IF showdown_loaded THEN makeHtml(text) ELSE TextNode(text)

\* add_message(sender, text) on the transcript ch; id is the identity of
\* the element it returns (the turn's number for the element send_message
\* keeps in thinking_el)
add_message(ch, sender, text, id) ==
    Append(ch, [cls |-> IF sender = "user" THEN "user-message" ELSE "bot-message",
                id |-> id,
                html |-> IF sender = "bot" THEN ph_render(text)
                         ELSE TextNode(text)])

\* send_message(): the prompt is the input's value as it is
ph_send_message(input) ==
    IF input = <<>> THEN UNCHANGED vars
    ELSE LET t == Len(turns) + 1
             ch1 == add_message(chat_history, "user", input, NoBubble)
         IN /\ Len(turns) < MaxTurns
            /\ chat_history' = add_message(ch1, "bot", Thinking, t)
            /\ chat_input_val' = <<>>
            /\ turns' = Append(turns, [prompt |-> input, state |-> "pending",
                                       got |-> <<>>])
            /\ UNCHANGED <<currentConversation, conversation,
                           chat_input_disabled, send_btn_visible,
                           spinner_visible, streaming_bubble, full_response,
                           conversations_list, pending_lists, pending_loads,
                           showdown_loaded, path, saved, more_vars>>

\* click on #gemini-send-btn
ph_click_send(input) ==
    /\ input \in InputTexts
    /\ ph_send_message(input)

\* keypress with e.which === 13 in #gemini-chat-input
ph_keypress_enter(input) ==
    /\ input \in InputTexts
    /\ ph_send_message(input)

\* the success callback writing into the bot bubble added last
ph_chat_callback_last_bubble(t, r) ==
    /\ t \in DOMAIN turns
    /\ turns[t].state = "pending"
    /\ r = Reply(t)
    /\ chat_history' = SetHtml(chat_history, Len(turns), ph_render(r))
    /\ turns' = [turns EXCEPT ![t] = [@ EXCEPT !.state = "done", !.got = r]]
    /\ UNCHANGED <<currentConversation, conversation, chat_input_val,
                   chat_input_disabled, send_btn_visible, spinner_visible,
                   streaming_bubble, full_response, conversations_list,
                   pending_lists, pending_loads, showdown_loaded, path, saved,
                   more_vars>>

\* callback of the chat call of turn t: thinking_el's bubble gets the reply
ph_chat_callback(t, r) ==
    /\ t \in DOMAIN turns
    /\ turns[t].state = "pending"
    /\ r = Reply(t)
    /\ chat_history' = SetHtml(chat_history, t, ph_render(r))
    /\ turns' = [turns EXCEPT ![t] = [@ EXCEPT !.state = "done", !.got = r]]
    /\ UNCHANGED <<currentConversation, conversation, chat_input_val,
                   chat_input_disabled, send_btn_visible, spinner_visible,
                   streaming_bubble, full_response, conversations_list,
                   pending_lists, pending_loads, showdown_loaded, path, saved,
                   more_vars>>

\* r.message && r.message.message, or the default text
ph_error_msg(e) == IF e # <<>> THEN e ELSE PhErrorDefault

\* error callback of the chat call of turn t
ph_chat_error(t, e) ==
    /\ t \in DOMAIN turns
    /\ turns[t].state = "pending"
    /\ e \in PhErrors(t)
    /\ chat_history' = SetHtml(chat_history, t, TextNode(ph_error_msg(e)))
    /\ turns' = [turns EXCEPT ![t] = [@ EXCEPT !.state = "failed", !.got = e]]
    /\ UNCHANGED <<currentConversation, conversation, chat_input_val,
                   chat_input_disabled, send_btn_visible, spinner_visible,
                   streaming_bubble, full_response, conversations_list,
                   pending_lists, pending_loads, showdown_loaded, path, saved,
                   more_vars>>

InitPh ==
    /\ currentConversation = NoConv
    /\ conversation = <<>>
    /\ chat_history = <<>>
    /\ chat_input_val = <<>>
    /\ chat_input_disabled = FALSE
    /\ send_btn_visible = TRUE
    /\ spinner_visible = FALSE
    /\ streaming_bubble = NoBubble
    /\ full_response = <<>>
    /\ conversations_list = <<>>
    /\ turns = <<>>
    /\ pending_lists = 0
    /\ pending_loads = <<>>
    /\ showdown_loaded = FALSE
    /\ path = NoConv
    /\ saved = <<>>
    /\ InitMore

NextPh ==
    \/ \E s \in InputTexts : ph_click_send(s)
    \/ \E s \in InputTexts : ph_keypress_enter(s)
    \/ \E t \in DOMAIN turns : ph_chat_callback(t, Reply(t))
    \/ \E t \in DOMAIN turns : \E e \in PhErrors(t) : ph_chat_error(t, e)
    \/ showdown_script_load

SpecPh == InitPh /\ [][NextPh]_vars

\* the ways a bot bubble can show a text
Shown(text) == {makeHtml(text), TextNode(text)}

\* the positions of the bot bubbles of turn t in the transcript
BubblesOf(t) ==
    {k \in DOMAIN chat_history :
        chat_history[k].cls = "bot-message" /\ chat_history[k].id = t}

\* C25: each send has its own placeholder bubble, right after its prompt,
\* and the callbacks of the send write only there: with several sends in
\* flight and answers in any order, the bubble shows "..." while the call
\* is pending, then the reply or the error text of that send.
C25_OwnPlaceholder ==
    \A t \in DOMAIN turns :
        /\ Cardinality(BubblesOf(t)) = 1
        /\ \A k \in BubblesOf(t) :
             /\ k > 1
             /\ chat_history[k - 1].cls = "user-message"
             /\ chat_history[k - 1].html = TextNode(turns[t].prompt)
             /\ turns[t].state = "pending" =>
                   chat_history[k].html \in Shown(Thinking)
             /\ turns[t].state = "done" =>
                   /\ turns[t].got = Reply(t)
                   /\ chat_history[k].html \in Shown(Reply(t))
             /\ turns[t].state = "failed" =>
                   /\ turns[t].got \in PhErrors(t)
                   /\ chat_history[k].html = TextNode(ph_error_msg(turns[t].got))

\* the second send was answered while the first is still in flight
C25_Witness ==
    /\ Len(turns) = 2
    /\ turns[1].state = "pending"
    /\ turns[2].state = "done"
    /\ chat_history[4].html \in Shown(Reply(2))

-----------------------------------------------------------------------------
(* The attachment chat page that keeps conversation_history                *)
(* (unnamed/part_005).  The transcript is chat_history; showdown is        *)
(* loaded by frappe.require at the end of on_page_load.                    *)

AttachedUrl == 1

\* r.message of the chat call of turn t: a text, or nothing
AttReplies(t) == {Reply(t), <<>>}

\* add_message_to_history(sender, message, file_url) on the transcript ch.
\* For sender 'gemini' it needs showdown: the callers below do not reach
\* it before the script has loaded.
add_message_to_history(ch, sender, message, file_url) ==
    Append(ch,
           [cls |-> sender, id |-> NoBubble,
            html |-> (IF file_url # NoFile THEN <<"<img>", "<br>">> ELSE <<>>)
                     \o (IF sender = "gemini" THEN makeHtml(message)
                         ELSE message)])

\* send_message() of the page, with input the text of the textarea
att_send_message(input) ==
    LET prompt == trim(input)
    IN IF prompt = <<>> /\ attached_file_url = NoFile THEN UNCHANGED vars
       ELSE /\ Len(turns) < MaxTurns
            /\ chat_history' = add_message_to_history(chat_history, "user",
                                                      prompt, attached_file_url)
            /\ chat_input_val' = <<>>
            /\ attached_file_url' = NoFile
            /\ turns' = Append(turns, [prompt |-> prompt,
                                       file_url |-> attached_file_url,
                                       pending |-> TRUE])
            /\ UNCHANGED <<currentConversation, conversation,
                           chat_input_disabled, send_btn_visible,
                           spinner_visible, streaming_bubble, full_response,
                           conversations_list, pending_lists, pending_loads,
                           showdown_loaded, path, saved, upload_vars,
                           superseded, conversation_history, search_vars,
                           settings_vars>>

\* send_button.on('click', send_message)
att_click_send(input) ==
    /\ input \in InputTexts
    /\ att_send_message(input)

\* keypress with e.which == 13 && !e.shiftKey
att_keypress_enter(input) ==
    /\ input \in InputTexts
    /\ att_send_message(input)

\* callback of the chat call of turn t: the two pushes, then the bubble;
\* without showdown the bubble is not reached (new showdown.Converter()
\* throws)
att_chat_callback(t, r) ==
    /\ t \in DOMAIN turns
    /\ turns[t].pending
    /\ r \in AttReplies(t)
    /\ conversation_history' =
          conversation_history
          \o <<[role |-> "user", parts |-> <<turns[t].prompt>>],
               [role |-> "model", parts |-> <<r>>]>>
    /\ chat_history' = IF showdown_loaded
                       THEN add_message_to_history(chat_history, "gemini", r,
                                                   NoFile)
                       ELSE chat_history
    /\ turns' = [turns EXCEPT ![t].pending = FALSE]
    /\ UNCHANGED <<currentConversation, conversation, chat_input_val,
                   chat_input_disabled, send_btn_visible, spinner_visible,
                   streaming_bubble, full_response, conversations_list,
                   pending_lists, pending_loads, showdown_loaded, path, saved,
                   upload_vars, superseded, attached_file_url, search_vars,
                   settings_vars>>

\* the error callback recording the prompt that failed
att_chat_error_pushing_prompt(t) ==
    /\ t \in DOMAIN turns
    /\ turns[t].pending
    /\ conversation_history' =
          Append(conversation_history,
                 [role |-> "user", parts |-> <<turns[t].prompt>>])
    /\ turns' = [turns EXCEPT ![t].pending = FALSE]
    /\ UNCHANGED <<currentConversation, conversation, chat_history,
                   chat_input_val, chat_input_disabled, send_btn_visible,
                   spinner_visible, streaming_bubble, full_response,
                   conversations_list, pending_lists, pending_loads,
                   showdown_loaded, path, saved, upload_vars, superseded,
                   attached_file_url, search_vars, settings_vars>>

\* error callback of the chat call of turn t: a dialog, nothing else
att_chat_error(t) ==
    /\ t \in DOMAIN turns
    /\ turns[t].pending
    /\ turns' = [turns EXCEPT ![t].pending = FALSE]
    /\ UNCHANGED <<currentConversation, conversation, chat_history,
                   chat_input_val, chat_input_disabled, send_btn_visible,
                   spinner_visible, streaming_bubble, full_response,
                   conversations_list, pending_lists, pending_loads,
                   showdown_loaded, path, saved, upload_vars, superseded,
                   attach_vars, search_vars, settings_vars>>

\* callback of frappe.upload.upload_file for a file the user picked
att_upload_callback ==
    /\ attached_file_url' = AttachedUrl
    /\ UNCHANGED <<currentConversation, conversation, chat_history,
                   chat_input_val, chat_input_disabled, send_btn_visible,
                   spinner_visible, streaming_bubble, full_response,
                   conversations_list, turns, pending_lists, pending_loads,
                   showdown_loaded, path, saved, upload_vars, superseded,
                   conversation_history, search_vars, settings_vars>>

InitAtt == InitPh

NextAtt ==
    \/ \E s \in InputTexts : att_click_send(s)
    \/ \E s \in InputTexts : att_keypress_enter(s)
    \/ \E t \in DOMAIN turns : \E r \in AttReplies(t) : att_chat_callback(t, r)
    \/ \E t \in DOMAIN turns : att_chat_error(t)
    \/ att_upload_callback
    \/ showdown_script_load

SpecAtt == InitAtt /\ [][NextAtt]_vars

\* user, model, user, model, ...
Alternates ==
    /\ Len(conversation_history) % 2 = 0
    /\ \A k \in DOMAIN conversation_history :
          conversation_history[k].role = IF k % 2 = 1 THEN "user" ELSE "model"

\* C26: conversation_history holds completed turns only: its length is
\* even and its entries alternate user, model; the error callback leaves it
\* unchanged, and each success callback appends exactly the pair (prompt of
\* that send, its response), whatever the order of the answers.
C26_CompletedTurnsOnly ==
    /\ []Alternates
    /\ [][/\ \A t \in DOMAIN turns :
               UNCHANGED conversation_history \/ ~att_chat_error(t)
          /\ \A t \in DOMAIN turns : \A r \in AttReplies(t) :
               \/ conversation_history' =
                     conversation_history
                     \o <<[role |-> "user", parts |-> <<turns[t].prompt>>],
                          [role |-> "model", parts |-> <<r>>]>>
               \/ ~att_chat_callback(t, r)
          /\ conversation_history' # conversation_history =>
               \E t \in DOMAIN turns : \E r \in AttReplies(t) :
                  att_chat_callback(t, r)]_vars

\* two sends answered in the reverse order, the first one sent with a file
\* and no text
C26_Witness ==
    /\ Len(conversation_history) = 4
    /\ conversation_history[1].parts = <<turns[2].prompt>>
    /\ conversation_history[2].parts = <<Reply(2)>>
    /\ conversation_history[3].parts = <<<<>>>>
    /\ conversation_history[4].parts = <<Reply(1)>>
    /\ turns[2].prompt # <<>>

-----------------------------------------------------------------------------
(* The search panel of the chat page (page/gemini_chat/gemini_chat.js      *)
(* 222-275; trigger_search of unnamed/part_000 is the same with more       *)
(* arguments).  Only the handlers of the panel are modelled: the chat      *)
(* handlers of the page read and write nothing of it.                      *)

\* what the user may have in the search box at a keyup
Queries == {<<>>, <<"a", "b">>, <<"a", "b", "c">>, <<"a", "b", "c", "d">>}

\* r.message of the search call for query q: missing, or the result lists
\* (one document named after the query, or none)
SearchResponses(q) ==
    {NoMessage}
    \cup [ok : {TRUE}, doctype_results : {<<>>, <<q>>}]

\* results_html built by the callback
RECURSIVE ResultItems(_)
ResultItems(results) ==
    IF results = <<>> THEN <<>>
    ELSE <<"<a doctype>">> \o Head(results) \o <<"</a>">>
         \o ResultItems(Tail(results))

results_html(r) ==
    IF Len(r.doctype_results) > 0
    THEN <<"<h5>DocTypes</h5>">> \o ResultItems(r.doctype_results)
    ELSE <<>>

\* search_input.on('keyup', ...) with the box holding q
search_keyup(q) ==
    /\ q \in Queries
    /\ search_input_val' = q
    /\ IF Len(q) > 2
       THEN /\ Len(searches) < MaxSearches
            /\ searches' = Append(searches, q)
            /\ UNCHANGED search_results
       ELSE /\ search_results' = [search_results EXCEPT !.visible = FALSE]
            /\ UNCHANGED searches
    /\ UNCHANGED <<currentConversation, conversation, chat_history,
                   chat_input_val, chat_input_disabled, send_btn_visible,
                   spinner_visible, streaming_bubble, full_response,
                   conversations_list, turns, pending_lists, pending_loads,
                   showdown_loaded, path, saved, upload_vars, superseded,
                   attach_vars, settings_vars>>

\* callback of the search call i
search_callback(i, r) ==
    /\ i \in DOMAIN searches
    /\ r \in SearchResponses(searches[i])
    /\ searches' = RemoveAt(searches, i)
    /\ search_results' =
          IF r.ok
          THEN [html |-> results_html(r), visible |-> TRUE,
                query |-> searches[i]]
          ELSE search_results
    /\ UNCHANGED <<currentConversation, conversation, chat_history,
                   chat_input_val, chat_input_disabled, send_btn_visible,
                   spinner_visible, streaming_bubble, full_response,
                   conversations_list, turns, pending_lists, pending_loads,
                   showdown_loaded, path, saved, upload_vars, superseded,
                   attach_vars, settings_vars, search_input_val>>

\* search_results.on('click', 'a', ...): the mention of the document goes
\* to the end of the chat input, the panel is hidden, the box is emptied
search_result_click(input) ==
    /\ input \in InputTexts
    /\ search_results.visible
    /\ search_results.html # <<>>
    /\ chat_input_val' = input \o <<" @", "\"">> \o search_results.query
                                \o <<"\"">>
    /\ search_results' = [search_results EXCEPT !.visible = FALSE]
    /\ search_input_val' = <<>>
    /\ UNCHANGED <<currentConversation, conversation, chat_history,
                   chat_input_disabled, send_btn_visible, spinner_visible,
                   streaming_bubble, full_response, conversations_list, turns,
                   pending_lists, pending_loads, showdown_loaded, path, saved,
                   upload_vars, superseded, attach_vars, settings_vars,
                   searches>>

InitSearch == InitPh

NextSearch ==
    \/ \E q \in Queries : search_keyup(q)
    \/ \E i \in DOMAIN searches : \E r \in SearchResponses(searches[i]) :
          search_callback(i, r)
    \/ \E s \in InputTexts : search_result_click(s)

SpecSearch == InitSearch /\ [][NextSearch]_vars

\* C27: whenever no search call is pending, the results panel is visible
\* only if the query in the box has more than 2 characters, and the results
\* it shows are those of the search issued last, the one for that query.
C27_SearchPanelConsistent ==
    (searches = <<>> /\ search_results.visible) =>
        /\ Len(search_input_val) > 2
        /\ search_results.query = search_input_val

\* the same for answered searches only: the answer processed last shows
\* the panel for the query in the box
LastAnswerIsCurrent ==
    [][\A i \in DOMAIN searches : \A r \in SearchResponses(searches[i]) :
         (Len(searches) = 1 /\ r.ok) =>
            \/ /\ Len(search_input_val) > 2
               /\ search_results'.query = search_input_val
            \/ ~search_callback(i, r)]_vars

-----------------------------------------------------------------------------
(* The greeting of the unary page. *)

GreetingShown == \E k \in DOMAIN chat_history : ~IsBubble(chat_history[k])

\* C28: whenever the greeting placeholder is in the transcript the session
\* is a fresh one: the active conversation id is null and the message log
\* is empty, also after initial load and after popstate to a location
\* without a conversation id.
C28_GreetingMeansFresh ==
    GreetingShown => (currentConversation = NoConv /\ conversation = <<>>)

-----------------------------------------------------------------------------
(* The Gemini Settings form (doctype/gemini_settings/gemini_settings.js).  *)

Alert(indicator, message) == [indicator |-> indicator, message |-> message]

\* frappe.show_alert, n times in a row
RECURSIVE ShowAlerts(_, _, _)
ShowAlerts(shown, alert, n) ==
    IF n = 0 THEN shown ELSE ShowAlerts(Append(shown, alert), alert, n - 1)

\* data of a realtime event: its message / error text, <<>> when missing
EventTexts == {<<>>, <<"x">>}

\* refresh: function (frm): the button is added and two more handlers are
\* registered on the realtime channel
settings_refresh ==
    /\ realtime_handlers.complete < MaxRefresh
    /\ realtime_handlers' = [complete |-> realtime_handlers.complete + 1,
                             failed |-> realtime_handlers.failed + 1]
    /\ UNCHANGED <<currentConversation, conversation, chat_history,
                   chat_input_val, chat_input_disabled, send_btn_visible,
                   spinner_visible, streaming_bubble, full_response,
                   conversations_list, turns, pending_lists, pending_loads,
                   showdown_loaded, path, saved, upload_vars, superseded,
                   attach_vars, search_vars, alerts, backfill_calls>>

\* click on "Generate Embeddings": enqueue_backfill_embeddings is called
generate_embeddings_click ==
    /\ realtime_handlers.complete > 0
    /\ backfill_calls = 0
    /\ backfill_calls' = 1
    /\ UNCHANGED <<currentConversation, conversation, chat_history,
                   chat_input_val, chat_input_disabled, send_btn_visible,
                   spinner_visible, streaming_bubble, full_response,
                   conversations_list, turns, pending_lists, pending_loads,
                   showdown_loaded, path, saved, upload_vars, superseded,
                   attach_vars, search_vars, alerts, realtime_handlers>>

Started == <<"Embedding generation has been started in the background.">>

\* its callback: an alert when r.message.status === "success"
enqueue_callback(ok) ==
    /\ backfill_calls > 0
    /\ backfill_calls' = backfill_calls - 1
    /\ IF ok
       THEN /\ Len(alerts) < MaxAlerts
            /\ alerts' = Append(alerts, Alert("green", Started))
       ELSE UNCHANGED alerts
    /\ UNCHANGED <<currentConversation, conversation, chat_history,
                   chat_input_val, chat_input_disabled, send_btn_visible,
                   spinner_visible, streaming_bubble, full_response,
                   conversations_list, turns, pending_lists, pending_loads,
                   showdown_loaded, path, saved, upload_vars, superseded,
                   attach_vars, search_vars, realtime_handlers>>

Complete == <<"Embedding generation complete.">>
Failed == <<"An error occurred during embedding generation.">>

\* an embedding_backfill_complete event: every handler registered for it
\* runs and shows data.message || "Embedding generation complete."
embedding_backfill_complete(text) ==
    LET alert == Alert("green", IF text # <<>> THEN text ELSE Complete)
    IN /\ text \in EventTexts
       /\ Len(alerts) + realtime_handlers.complete <= MaxAlerts
       /\ alerts' = ShowAlerts(alerts, alert, realtime_handlers.complete)
       /\ UNCHANGED <<currentConversation, conversation, chat_history,
                      chat_input_val, chat_input_disabled, send_btn_visible,
                      spinner_visible, streaming_bubble, full_response,
                      conversations_list, turns, pending_lists, pending_loads,
                      showdown_loaded, path, saved, upload_vars, superseded,
                      attach_vars, search_vars, realtime_handlers,
                      backfill_calls>>

\* an embedding_backfill_failed event, likewise with data.error
embedding_backfill_failed(text) ==
    LET alert == Alert("red", IF text # <<>> THEN text ELSE Failed)
    IN /\ text \in EventTexts
       /\ Len(alerts) + realtime_handlers.failed <= MaxAlerts
       /\ alerts' = ShowAlerts(alerts, alert, realtime_handlers.failed)
       /\ UNCHANGED <<currentConversation, conversation, chat_history,
                      chat_input_val, chat_input_disabled, send_btn_visible,
                      spinner_visible, streaming_bubble, full_response,
                      conversations_list, turns, pending_lists, pending_loads,
                      showdown_loaded, path, saved, upload_vars, superseded,
                      attach_vars, search_vars, realtime_handlers,
                      backfill_calls>>

InitSettings == InitPh

NextSettings ==
    \/ settings_refresh
    \/ generate_embeddings_click
    \/ \E ok \in BOOLEAN : enqueue_callback(ok)
    \/ \E x \in EventTexts : embedding_backfill_complete(x)
    \/ \E x \in EventTexts : embedding_backfill_failed(x)

SpecSettings == InitSettings /\ [][NextSettings]_vars

\* C29: on the Gemini Settings form each embedding_backfill_complete or
\* embedding_backfill_failed event produces exactly one alert, however
\* many times the refresh handler has run before the event.
C29_OneAlertPerEvent ==
    [][\A x \in EventTexts :
         (/\ realtime_handlers.complete > 0
          /\ embedding_backfill_complete(x) \/ embedding_backfill_failed(x))
         => Len(alerts') = Len(alerts) + 1]_vars

-----------------------------------------------------------------------------
(* Frame of a stream chunk, widget. *)

\* the event of turn t that carries its next chunk and nothing else: no
\* conversation_id, no end_of_stream
ChunkEvent(t) ==
    [conversation_id |-> NoConv,
     message |-> ChunkText(turns[t].nchunks + 1),
     end_of_stream |-> FALSE]

\* what such an event may change: the accumulated text, and the rendering
\* of the bubble streaming_bubble refers to
ChunkFrame(d) ==
    /\ full_response' = full_response \o d.message
    /\ UNCHANGED <<conversation, currentConversation, conversations_list,
                   pending_lists, chat_input_disabled, send_btn_visible,
                   spinner_visible, chat_input_val, streaming_bubble>>
    /\ Len(chat_history') = Len(chat_history)
    /\ \A k \in DOMAIN chat_history :
          \/ chat_history'[k] = chat_history[k]
          \/ /\ streaming_bubble # NoBubble
             /\ chat_history[k].id = streaming_bubble
             /\ chat_history'[k] =
                   [chat_history[k] EXCEPT !.html = Rendered(full_response')]

\* C30: a gemini_chat_update event that carries only a message changes
\* nothing but the accumulated stream text and the rendering of the
\* current streaming bubble; the message log, the active id, the sidebar,
\* the input state and all other bubbles stay as they are, and with no
\* streaming bubble the transcript stays as it is too.
C30_ChunkFrame ==
    [][\A t \in DOMAIN turns :
         ChunkFrame(ChunkEvent(t)) \/ ~gemini_chat_update(t, ChunkEvent(t))]_vars

\* the first chunk of a turn has arrived in an event of its own
C30_Witness ==
    /\ Len(turns) = 1
    /\ turns[1].nchunks = 1
    /\ ~turns[1].ended
    /\ currentConversation = NoConv
    /\ full_response = ChunkText(1)
    /\ streaming_bubble = 1
    /\ \E k \in DOMAIN chat_history :
          chat_history[k].id = 1 /\ chat_history[k].html = Rendered(ChunkText(1))

====
